---- MODULE Spec2Model ----
(***************************************************************************)
(* SkipScan executor node of tsl/src/nodes/skip_scan (exec.c, planner.c,   *)
(* skip_scan.h): a custom scan that wraps an Index(Only)Scan and drives it  *)
(* with a skip qual "column > previous value" to return one row per         *)
(* distinct value of one index column.                                      *)
(*                                                                          *)
(* The model holds the SkipScanState fields, the fields of the inner        *)
(* Index(Only)ScanState the node points into (scan keys, their count, the   *)
(* scan descriptor, the runtime keys), the table behind the index, and the  *)
(* history of the rows returned in the current generation.                  *)
(***************************************************************************)
EXTENDS Integers, Sequences, FiniteSets, TLC

(***************************************************************************)
(* Bounds of the model.                                                     *)
(***************************************************************************)
MaxKey == 2          \* non-NULL values of the distinct column are 1..MaxKey
MaxRows == 3         \* a table holds at most MaxRows rows
MaxLateCalls == 1    \* get-next calls after a generation's end, in one run
MaxPaths == 2        \* paths the planner offers for the DISTINCT rel before the hook

TVals == {1, 2}      \* values of the second data column ("time")
ParamVals == {1, 2}  \* values of the one executor parameter (a.v / $1)

(***************************************************************************)
(* Data: rows, index order.                                                 *)
(***************************************************************************)
NullKey == 0 - 1     \* encoding of SQL NULL in the distinct column of a row

KeyVals == 1 .. MaxKey
Rows == [k : KeyVals \cup {NullKey}, t : TVals]
NoRow == [k |-> 0, t |-> 0]      \* an empty slot (TupIsNull)
Tables == {T \in SUBSET Rows : Cardinality(T) <= MaxRows}

\* SkipScanStage bits (skip_scan.h)
SkipScanSearchingForFirst == 0
SkipScanFoundNull == 1
SkipScanFoundVal == 2
SkipScanSearchingForAdditional == 4
SkipScanSearchingForNull == 6
SkipScanSearchingForVal == 5
SkipScanFoundNullAndVal == 3

\* bit operations on the three stage bits
Bit(s, b) == (s \div b) % 2 = 1
BitAnd(s, m) == (IF Bit(s, 1) /\ Bit(m, 1) THEN 1 ELSE 0)
              + (IF Bit(s, 2) /\ Bit(m, 2) THEN 2 ELSE 0)
              + (IF Bit(s, 4) /\ Bit(m, 4) THEN 4 ELSE 0)
BitOr(s, m) == (IF Bit(s, 1) \/ Bit(m, 1) THEN 1 ELSE 0)
             + (IF Bit(s, 2) \/ Bit(m, 2) THEN 2 ELSE 0)
             + (IF Bit(s, 4) \/ Bit(m, 4) THEN 4 ELSE 0)
BitClear(s, m) == BitAnd(s, 7 - m)

\* sk_flags of a ScanKey
SK_ISNULL == "SK_ISNULL"
SK_SEARCHNULL == "SK_SEARCHNULL"
SK_SEARCHNOTNULL == "SK_SEARCHNOTNULL"

\* btree strategies used by the conditions of the model
InvalidStrategy == "InvalidStrategy"
BTLessStrategyNumber == "<"
BTEqualStrategyNumber == "="
BTGreaterEqualStrategyNumber == ">="
BTGreaterStrategyNumber == ">"

ForwardScanDirection == "forward"
BackwardScanDirection == "backward"

(***************************************************************************)
(* The plan.  An index qual is [attno, varno, op, isparam, val, isnull]: a  *)
(* condition on index column attno (varno INDEX_VAR; in the original list   *)
(* on table column attno, varno "rel") whose right-hand side is the         *)
(* constant val, a NULL constant (isnull) or, when                         *)
(* isparam, the executor parameter (a runtime key).  A plan is the inner    *)
(* scan's user index quals (ordered by index column, as the planner builds  *)
(* them), its filter qual, the index column DISTINCT is on, and whether its *)
(* target list has the DISTINCT column (tlist_col).  With                   *)
(* distinct_column = 0 the index is on (k, t); with distinct_column = 1 it  *)
(* is on (lead, k, t), lead holding LeadVal in every row.                   *)
(***************************************************************************)
LeadVal == 1

IndexQual(attno, op, isparam, val) ==
    [attno |-> attno, varno |-> "INDEX_VAR", op |-> op, isparam |-> isparam,
     val |-> val, isnull |-> FALSE]

UserPlans ==
    { [tlist_col |-> TRUE, distinct_column |-> 0, indexqual |-> <<>>, qual |-> "none"],
      [tlist_col |-> TRUE, distinct_column |-> 0, indexqual |-> <<>>, qual |-> "t_ne_param"],
      [tlist_col |-> TRUE, distinct_column |-> 0,
       indexqual |-> <<IndexQual(1, BTGreaterStrategyNumber, FALSE, 1)>>,
       qual |-> "none"],
      [tlist_col |-> TRUE, distinct_column |-> 0,
       indexqual |-> <<IndexQual(2, BTGreaterEqualStrategyNumber, TRUE, 0)>>,
       qual |-> "none"],
      [tlist_col |-> TRUE, distinct_column |-> 0,
       indexqual |-> <<IndexQual(1, BTGreaterEqualStrategyNumber, TRUE, 0),
                       IndexQual(2, BTGreaterStrategyNumber, FALSE, 1)>>,
       qual |-> "none"],
      [tlist_col |-> TRUE, distinct_column |-> 1,
       indexqual |-> <<IndexQual(1, BTEqualStrategyNumber, TRUE, 0)>>,
       qual |-> "t_ne_param"],
      [tlist_col |-> TRUE, distinct_column |-> 1,
       indexqual |-> <<IndexQual(1, BTEqualStrategyNumber, FALSE, LeadVal),
                       IndexQual(2, BTGreaterEqualStrategyNumber, TRUE, 0)>>,
       qual |-> "none"] }

\* the index shapes of the executor runs: ascending indexes, NULLS FIRST or
\* NULLS LAST (scanned in either direction)
IndexShapes == [nulls_first : BOOLEAN, reverse_sort : {FALSE}]

VARIABLES
    table,              \* the rows of the relation
    index,              \* IndexOptInfo: [nulls_first, reverse_sort]
    idx_scan,           \* the inner plan: [type, indexqual, qual, indexorderdir,
                        \*                  distinct_column]
    param,              \* current value of the executor parameter
    phase,              \* "planning", "created", "open", "closed"; "plan_error", "error"
    stage,              \* SkipScanState.stage
    prev_distinct_val,  \* SkipScanState.prev_distinct_val
    prev_is_null,       \* SkipScanState.prev_is_null
    skip_qual,          \* SkipScanState.skip_qual (saved copy of the skip key)
    skip_qual_offset,   \* SkipScanState.skip_qual_offset (0-based slot)
    skip_qual_removed,  \* SkipScanState.skip_qual_removed
    scan_keys,          \* *state->scan_keys: the inner node's ScanKey array
    num_scan_keys,      \* *state->num_scan_keys
    runtime_keys,       \* the inner node's IndexRuntimeKeyInfo array
    RuntimeKeysReady,   \* the inner node's iss_RuntimeKeysReady
    scan_desc,          \* *state->scan_desc
    reached_end,        \* *state->reached_end (plain IndexScan only)
    index_only_buffer,  \* *state->index_only_buffer (IndexOnlyScan only)
    result,             \* the slot the last get-next returned (NoRow: none)
    out,                \* the first MaxOut rows returned since open or the last rescan
    exhausted,          \* the last get-next of this generation returned no row
    probes,             \* per generation: [null, val, pulls, depth] counters
    late_calls,         \* get-next calls made after a generation's end
    heap,               \* the palloc'd copy behind prev_distinct_val (by-ref types)
    pins,               \* the pins taken on the visibility-map buffer
    handles,            \* the index scan descriptors begun and ended so far
    ts_guc_enable_skip_scan,  \* the timescaledb.enable_skipscan switch
    output_rel,         \* the RelOptInfo the planner hook works on: [pathlist]
    planning            \* the planner's run: [before, status, guc_reads, offered]

vars == <<table, index, idx_scan, param, phase, stage, prev_distinct_val,
          prev_is_null, skip_qual, skip_qual_offset, skip_qual_removed,
          scan_keys, num_scan_keys, runtime_keys, RuntimeKeysReady, scan_desc,
          reached_end, index_only_buffer, result, out, exhausted, probes,
          late_calls, heap, pins, handles, ts_guc_enable_skip_scan, output_rel, planning>>

\* the variables of the planner
plan_vars == <<ts_guc_enable_skip_scan, output_rel, planning>>

(***************************************************************************)
(* The index and the inner Index(Only)Scan node (PostgreSQL's, seen from    *)
(* the calls exec.c makes on it).                                           *)
(***************************************************************************)

\* value of index column attno in a row
IndexColValue(row, attno) ==
    IF idx_scan.distinct_column = 0
    THEN (IF attno = 1 THEN row.k ELSE row.t)
    ELSE (IF attno = 1 THEN LeadVal ELSE IF attno = 2 THEN row.k ELSE row.t)

\* order of two values of the distinct column in the index
KeyLess(a, b) ==
    IF a = b THEN FALSE
    ELSE IF a = NullKey THEN index.nulls_first
    ELSE IF b = NullKey THEN ~index.nulls_first
    ELSE IF index.reverse_sort THEN a > b ELSE a < b

\* order of two rows in the index (distinct column, then t)
IndexLess(r1, r2) ==
    \/ KeyLess(r1.k, r2.k)
    \/ r1.k = r2.k /\ r1.t < r2.t

\* order in which the scan visits the rows
ScanBefore(r1, r2) ==
    IF idx_scan.indexorderdir = ForwardScanDirection
    THEN IndexLess(r1, r2) ELSE IndexLess(r2, r1)

\* a btree operator applied to two non-NULL values
OpHolds(v, op, arg) ==
    CASE op = BTLessStrategyNumber -> v < arg
      [] op = BTEqualStrategyNumber -> v = arg
      [] op = BTGreaterEqualStrategyNumber -> v >= arg
      [] op = BTGreaterStrategyNumber -> v > arg

\* whether an index tuple passes one scan key (btree's treatment of sk_flags)
KeyMatches(key, row) ==
    LET v == IndexColValue(row, key.sk_attno) IN
    IF SK_ISNULL \in key.sk_flags
    THEN (IF SK_SEARCHNULL \in key.sk_flags THEN v = NullKey
          ELSE IF SK_SEARCHNOTNULL \in key.sk_flags THEN v # NullKey
          ELSE FALSE)
    ELSE v # NullKey /\ OpHolds(v, key.sk_strategy, key.sk_argument)

\* the filter qual of the inner scan node, on a fetched row
FilterPasses(row, p) ==
    IF idx_scan.qual = "t_ne_param" THEN row.t # p ELSE TRUE

\* the ScanKey built for one index qual (a runtime key starts with datum 0)
ScanKeyEntry(q, n) ==
    [sk_attno |-> q.attno, sk_strategy |-> q.op,
     sk_argument |-> IF q.isparam \/ q.isnull THEN 0 ELSE q.val,
     sk_flags |-> IF ~q.isparam /\ q.isnull THEN {SK_ISNULL} ELSE {},
     qual |-> n]

\* ExecIndexBuildScanKeys: one key per index qual, in plan order; qual n - 1
\* is the position among the user quals, 0 the skip clause
ExecIndexBuildScanKeys(indexqual) ==
    [i \in 1 .. Len(indexqual) |-> ScanKeyEntry(indexqual[i], i - 1)]

RECURSIVE BuildRuntimeKeys(_, _)
\* the runtime keys: a pointer (0-based slot) for each qual with a non-constant
\* right-hand side
BuildRuntimeKeys(indexqual, i) ==
    IF i > Len(indexqual) THEN <<>>
    ELSE (IF indexqual[i].isparam THEN <<[scan_key |-> i - 1]>> ELSE <<>>)
         \o BuildRuntimeKeys(indexqual, i + 1)

NoScanDesc == [valid |-> FALSE, ended |-> FALSE, numberOfKeys |-> 0,
               keyData |-> <<>>]

\* index_beginscan: a fresh descriptor for nkeys keys
index_beginscan(nkeys) ==
    [valid |-> TRUE, ended |-> FALSE, numberOfKeys |-> nkeys, keyData |-> <<>>]

\* index_rescan: the descriptor copies as many keys as it was begun with and
\* restarts from the beginning of the index
index_rescan(desc, keys, nkeys) ==
    [desc EXCEPT !.keyData =
        IF desc.numberOfKeys > 0 THEN SubSeq(keys, 1, desc.numberOfKeys)
        ELSE <<>>]

\* the account of the descriptors: open - begun and not ended; begins and
\* seeks - index_beginscan and index_rescan calls made by the last get-next;
\* begun_with_same_count - a descriptor was begun for as many keys as the
\* one it replaced;
\* ended_twice - index_endscan of a descriptor that was ended before;
\* seek_on_ended - index_rescan of one; seek_count_differs - index_rescan
\* called with a key count other than the one the descriptor was begun with
NoHandles == [open |-> 0, begins |-> 0, seeks |-> 0,
              begun_with_same_count |-> FALSE, ended_twice |-> FALSE, seek_on_ended |-> FALSE,
              seek_count_differs |-> FALSE]

\* index_endscan(desc) in the account h
index_endscan(h, desc) ==
    [h EXCEPT !.open = IF desc.ended THEN @ ELSE @ - 1,
              !.ended_twice = @ \/ desc.ended]

\* index_beginscan with nkeys keys in the account h, old being the descriptor
\* recorded until then
HandleBegun(h, old, nkeys) ==
    [h EXCEPT !.open = @ + 1,
              !.begins = @ + 1,
              !.begun_with_same_count = @ \/ (old.valid /\ old.numberOfKeys = nkeys)]

\* index_rescan(desc, keys, nkeys) in the account h
HandleSought(h, desc, nkeys) ==
    [h EXCEPT !.seeks = @ + 1,
              !.seek_on_ended = @ \/ desc.ended,
              !.seek_count_differs = @ \/ nkeys # desc.numberOfKeys]

\* the rows of the index that pass every key of the descriptor
IndexMatches(desc) ==
    {r \in table : \A i \in 1 .. Len(desc.keyData) : KeyMatches(desc.keyData[i], r)}

\* ExecScan over IndexNext / IndexOnlyNext: the first row, in scan order, that
\* passes the descriptor's keys and the node's filter qual
IndexNext(desc, p) ==
    LET cand == {r \in IndexMatches(desc) : FilterPasses(r, p)} IN
    IF cand = {} THEN NoRow
    ELSE CHOOSE r \in cand : \A r2 \in cand \ {r} : ScanBefore(r, r2)

\* ExecIndexEvalRuntimeKeys: write the parameter through each pointer
RECURSIVE ExecIndexEvalRuntimeKeys(_, _, _, _)
ExecIndexEvalRuntimeKeys(keys, rks, i, p) ==
    IF i > Len(rks) THEN keys
    ELSE LET slot == rks[i].scan_key + 1
             k2 == [keys EXCEPT ![slot].sk_argument = p,
                                ![slot].sk_flags = @ \ {SK_ISNULL}]
         IN ExecIndexEvalRuntimeKeys(k2, rks, i + 1, p)

\* ExecReScanIndexScan / ExecReScanIndexOnlyScan on the inner node
ExecReScanIndex(s) ==
    LET keys == ExecIndexEvalRuntimeKeys(s.scan_keys, runtime_keys, 1, param)
    IN [s EXCEPT !.scan_keys = keys,
                 !.RuntimeKeysReady = TRUE,
                 !.scan_desc = IF s.scan_desc.valid
                               THEN index_rescan(s.scan_desc, keys, s.num_scan_keys)
                               ELSE s.scan_desc,
                 !.handles = IF s.scan_desc.valid
                             THEN HandleSought(@, s.scan_desc, s.num_scan_keys)
                             ELSE @,
                 !.reached_end = FALSE]

\* ExecProcNode on the inner node: set up the runtime keys if they have not
\* been yet, then fetch; s.result is the row (NoRow at the end of the scan)
ExecProcNode(s) ==
    LET s1 == IF Len(runtime_keys) # 0 /\ ~s.RuntimeKeysReady
              THEN ExecReScanIndex(s) ELSE s
        row == IndexNext(s1.scan_desc, param)
        skey == skip_qual_offset + 1
    IN [s1 EXCEPT !.result = row,
                  !.reached_end = IF row = NoRow /\ idx_scan.type = "IndexScan"
                                  THEN TRUE ELSE @,
                  !.index_only_buffer =
                      IF idx_scan.type = "IndexOnlyScan" /\ IndexMatches(s1.scan_desc) # {}
                      THEN 1 ELSE @,
                  !.heap.stale_use =
                      @ \/ (/\ ~s1.skip_qual_removed
                            /\ s1.heap.bound = "freed"
                            /\ skey <= Len(s1.scan_desc.keyData)
                            /\ SK_ISNULL \notin s1.scan_desc.keyData[skey].sk_flags),
                  !.probes.pulls = @ + 1]

(***************************************************************************)
(* Planning: the skip clause and the plan (planner.c).                      *)
(***************************************************************************)

\* a choice of the skip comparison that does not look at the scan direction
strategy_ignores_direction(reverse_sort, indexscandir) ==
    IF reverse_sort THEN BTLessStrategyNumber ELSE BTGreaterStrategyNumber

\* create_index_skip_scan_path: the strategy of the skip comparison
SkipStrategy(reverse_sort, indexscandir) ==
    LET strategy == IF reverse_sort THEN BTLessStrategyNumber
                    ELSE BTGreaterStrategyNumber
    IN IF indexscandir = BackwardScanDirection
       THEN (IF strategy = BTLessStrategyNumber THEN BTGreaterStrategyNumber
             ELSE BTLessStrategyNumber)
       ELSE strategy

\* create_index_skip_scan_path: the clause "column <op> NULL" of a path, its
\* left operand the Var of table column table_col
make_opclause(table_col, strategy) ==
    [attno |-> table_col, varno |-> "rel", op |-> strategy,
     isparam |-> FALSE, val |-> 0, isnull |-> TRUE]

\* skip_scan_plan_create, fix_indexqual_operand: the left operand becomes
\* the reference to index column indexcol + 1
fix_indexqual_operand(clause, indexcol) ==
    [clause EXCEPT !.varno = "INDEX_VAR", !.attno = indexcol + 1]

\* create_plan: the original form of a user index qual, its operand the Var
\* of the table column indexkeys[index column]
OrigQual(q, indexkeys) ==
    [q EXCEPT !.varno = "rel", !.attno = indexkeys[q.attno]]

IndexQualOrig(indexqual, indexkeys) ==
    [i \in 1 .. Len(indexqual) |-> OrigQual(indexqual[i], indexkeys)]

(***************************************************************************)
(* Paths (planner.c).  A path is a record whose fields type, total_cost,    *)
(* rows, parallel_safe and pathkeys are the Path header; pathkeys is 1 for  *)
(* the order of the distinct column, 0 for none.                            *)
(***************************************************************************)

\* an index path on which every lookup of create_index_skip_scan_path works:
\* the index (dev, time) of the tests' table (time, dev, val), whose
\* indexkeys are the table columns <<2, 1>>, with the DISTINCT column found
\* at index column col
IndexPathOK ==
    [type |-> "IndexPath", total_cost |-> 8, rows |-> 4, parallel_safe |-> FALSE,
     pathkeys |-> 1, sortopfamily |-> "btree", indexorderbys |-> 0,
     tlist_col |-> TRUE, indexkeys |-> <<2, 1>>, col |-> 0,
     att_valid |-> TRUE, type_valid |-> TRUE,
     comparator_valid |-> TRUE, indexscandir |-> ForwardScanDirection,
     reverse_sort |-> FALSE, attbyval |-> TRUE]

\* create_index_skip_scan_path: table_col = idx_info->indexkeys[col]
TableCol(index_path) == index_path.indexkeys[index_path.col + 1]

UpperUniquePath(subpath, numkeys, cost, psafe) ==
    [type |-> "UpperUniquePath", total_cost |-> cost, rows |-> 2,
     parallel_safe |-> psafe, pathkeys |-> 1, numkeys |-> numkeys,
     subpath |-> subpath]

NoPath == [type |-> "NULL"]
ErrorPath == [type |-> "ERROR"]

\* a create_index_skip_scan_path that does not look at the order-by keys of
\* the index path
create_path_keeps_orderbys(unique_path, index_path, for_append) ==
    IF index_path.sortopfamily = "NULL" THEN NoPath
    ELSE IF ~index_path.tlist_col THEN ErrorPath
    ELSE IF TableCol(index_path) = 0 THEN NoPath
    ELSE IF ~index_path.att_valid THEN NoPath
    ELSE IF ~index_path.type_valid THEN NoPath
    ELSE IF ~index_path.comparator_valid THEN NoPath
    ELSE LET header == IF for_append THEN index_path ELSE unique_path
         IN [type |-> "CustomPath", total_cost |-> header.total_cost,
             rows |-> header.rows, parallel_safe |-> header.parallel_safe,
             pathkeys |-> header.pathkeys, index_path |-> index_path,
             skip_clause |-> make_opclause(TableCol(index_path),
                                SkipStrategy(index_path.reverse_sort,
                                             index_path.indexscandir)),
             distinct_column |-> index_path.col,
             distinct_by_val |-> index_path.attbyval]

\* create_index_skip_scan_path: NoPath when the index path is declined,
\* ErrorPath when elog(ERROR) is raised, else the skip-scan path, whose header
\* is copied from the index path (under a merge) or from the unique path
create_index_skip_scan_path(unique_path, index_path, for_append) ==
    IF index_path.sortopfamily = "NULL" THEN NoPath
    ELSE IF index_path.indexorderbys # 0 THEN NoPath
    ELSE IF ~index_path.tlist_col THEN ErrorPath
    ELSE IF TableCol(index_path) = 0 THEN NoPath
    ELSE IF ~index_path.att_valid THEN NoPath
    ELSE IF ~index_path.type_valid THEN NoPath
    ELSE IF ~index_path.comparator_valid THEN NoPath
    ELSE LET header == IF for_append THEN index_path ELSE unique_path
         IN [type |-> "CustomPath", total_cost |-> header.total_cost,
             rows |-> header.rows, parallel_safe |-> header.parallel_safe,
             pathkeys |-> header.pathkeys, index_path |-> index_path,
             skip_clause |-> make_opclause(TableCol(index_path),
                                SkipStrategy(index_path.reverse_sort,
                                             index_path.indexscandir)),
             distinct_column |-> index_path.col,
             distinct_by_val |-> index_path.attbyval]

\* no plan: before plan creation
NoPlan == [type |-> "none", indexqual |-> <<>>, indexqualorig |-> <<>>,
           qual |-> "none",
           indexorderdir |-> ForwardScanDirection, distinct_column |-> 0,
           distinct_by_val |-> TRUE, indexorderby |-> 0]

\* the outcome of an elog(ERROR, message, arg) in plan creation: no plan
PlanError(message, arg) ==
    [type |-> "ERROR", message |-> message, arg |-> arg,
     indexqual |-> <<>>, indexqualorig |-> <<>>, qual |-> "none",
     indexorderdir |-> ForwardScanDirection, distinct_column |-> 0,
     distinct_by_val |-> TRUE, indexorderby |-> 0]

\* the kinds of plan create_plan hands to skip_scan_plan_create: the two it
\* accepts and one of the others
PlanTypes == {"IndexScan", "IndexOnlyScan", "BitmapHeapScan"}

\* a plan creation that puts the skip clause behind the user's index quals
plan_create_appends_skip_clause(best_path, up, type) ==
    IF type \notin {"IndexScan", "IndexOnlyScan"}
    THEN PlanError("bad subplan type for SkipScan: %d", type)
    ELSE IF ~up.tlist_col
    THEN PlanError("Invalid skip column in SkipScanPath; could not find in tlist",
                   "")
    ELSE [type |-> type,
          indexqual |-> up.indexqual
                        \o <<fix_indexqual_operand(best_path.skip_clause,
                                                   best_path.distinct_column)>>,
          indexqualorig |->
              IF type = "IndexScan"
              THEN IndexQualOrig(up.indexqual, best_path.index_path.indexkeys)
                   \o <<best_path.skip_clause>>
              ELSE <<>>,
          qual |-> up.qual,
          indexorderdir |-> best_path.index_path.indexscandir,
          distinct_column |-> best_path.distinct_column,
          distinct_by_val |-> best_path.distinct_by_val,
          indexorderby |-> best_path.index_path.indexorderbys]

\* skip_scan_plan_create on the skip-scan path best_path: create_plan
\* materialises its index path as a plan of kind type (up: its user index
\* quals, its filter and whether its target list has the DISTINCT column);
\* the path's skip clause, its operand rewritten to the index column, goes in
\* front of the index quals of an IndexScan or IndexOnlyScan, and as it is
\* in front of the original quals of an IndexScan; any other kind is an
\* error that names the kind, and a target list without the DISTINCT column
\* is an error too
skip_scan_plan_create(best_path, up, type) ==
    IF type \notin {"IndexScan", "IndexOnlyScan"}
    THEN PlanError("bad subplan type for SkipScan: %d", type)
    ELSE IF ~up.tlist_col
    THEN PlanError("Invalid skip column in SkipScanPath; could not find in tlist",
                   "")
    ELSE [type |-> type,
          indexqual |-> <<fix_indexqual_operand(best_path.skip_clause,
                                                best_path.distinct_column)>>
                        \o up.indexqual,
          indexqualorig |->
              IF type = "IndexScan"
              THEN <<best_path.skip_clause>>
                   \o IndexQualOrig(up.indexqual, best_path.index_path.indexkeys)
              ELSE <<>>,
          qual |-> up.qual,
          indexorderdir |-> best_path.index_path.indexscandir,
          distinct_column |-> best_path.distinct_column,
          distinct_by_val |-> best_path.distinct_by_val,
          indexorderby |-> best_path.index_path.indexorderbys]

(***************************************************************************)
(* The SkipScan node (exec.c).  The functions below work on a record s of   *)
(* the fields they may change.                                              *)
(***************************************************************************)
State ==
    [stage |-> stage, prev_distinct_val |-> prev_distinct_val,
     prev_is_null |-> prev_is_null, skip_qual |-> skip_qual,
     skip_qual_removed |-> skip_qual_removed, scan_keys |-> scan_keys,
     num_scan_keys |-> num_scan_keys, RuntimeKeysReady |-> RuntimeKeysReady,
     scan_desc |-> scan_desc, reached_end |-> reached_end,
     index_only_buffer |-> index_only_buffer, result |-> result,
     probes |-> probes, heap |-> heap, pins |-> pins, handles |-> handles,
     palloc |-> "alloc"]

NoProbes == [null |-> 0, val |-> 0, pulls |-> 0, depth |-> 0]

\* no copy of a previous value: owned - prev_distinct_val points to a live
\* palloc'd copy; lost - a live copy was dropped without pfree; bad_free - a
\* pfree of something that is not a live copy; bound - what the skip key's
\* sk_argument points to; stale_use - the index read a bound that was freed;
\* crashed - the backend died in palloc
NoHeap == [owned |-> FALSE, lost |-> FALSE, bad_free |-> FALSE,
           bound |-> "none", stale_use |-> FALSE, crashed |-> FALSE]

\* no pin: leaked - a pinned buffer number was overwritten without
\* ReleaseBuffer; bad_release - ReleaseBuffer on a pin already released
NoPins == [leaked |-> FALSE, bad_release |-> FALSE]

\* SkipScanState.ctx: zeroed by newNode in ts_skip_scan_state_create and never
\* assigned, so update_skip_key switches to a NULL memory context
ctx == "NULL"

\* what palloc does in datumCopy: nothing is allocated for a by-value type;
\* in a NULL CurrentMemoryContext the call is undefined behaviour
PallocOutcomes ==
    IF idx_scan.distinct_by_val THEN {"alloc"}
    ELSE IF ctx = "NULL" THEN {"alloc", "crash"} ELSE {"alloc"}

RECURSIVE FixupOffset(_, _, _, _)
\* skip_scan_state_fixup_qual_order, the search loop: the slot of the first
\* key that is not on an earlier column than the skip qual
FixupOffset(keys, num, sk, off) ==
    LET i == off + 1 IN
    IF i >= num THEN off
    ELSE IF keys[i + 1].sk_attno >= sk.sk_attno THEN off
    ELSE FixupOffset(keys, num, sk, off + 1)

\* skip_scan_state_fixup_qual_order, the move: keys 1..off go one slot down
\* and the skip qual goes to slot off (0-based)
FixupKeys(keys, sk, off) ==
    IF off > 0
    THEN [j \in 1 .. Len(keys) |->
            IF j <= off THEN keys[j + 1]
            ELSE IF j = off + 1 THEN sk
            ELSE keys[j]]
    ELSE keys

\* a fix-up that leaves every runtime-key pointer where it was
fixup_keeps_runtime_keys(rks, off) == rks

\* skip_scan_state_fixup_qual_order, the runtime keys: pointers at or below
\* the skip key's new slot go one slot down
FixupRuntimeKeys(rks, off) ==
    IF off > 0
    THEN [i \in 1 .. Len(rks) |->
            IF rks[i].scan_key <= off
            THEN [rks[i] EXCEPT !.scan_key = @ - 1] ELSE rks[i]]
    ELSE rks

skip_scan_is_searching_for_first_val(s) == s.stage = SkipScanSearchingForFirst

skip_scan_state_found_null(s) == BitAnd(s.stage, SkipScanFoundNull) # 0

skip_scan_state_found_val(s) == BitAnd(s.stage, SkipScanFoundVal) # 0

skip_scan_state_found_everything(s) ==
    BitAnd(s.stage, SkipScanFoundNullAndVal) = SkipScanFoundNullAndVal

skip_scan_state_is_searching_for_null(s) ==
    BitAnd(s.stage, SkipScanSearchingForNull) = SkipScanSearchingForNull

skip_scan_state_is_searching_for_val(s) ==
    BitAnd(s.stage, SkipScanSearchingForVal) = SkipScanSearchingForVal

skip_scan_is_finished(s) ==
    \/ BitAnd(s.stage, SkipScanFoundNullAndVal) = 0
    \/ skip_scan_state_is_searching_for_val(s) /\ ~skip_scan_state_found_val(s)
    \/ skip_scan_state_is_searching_for_null(s) /\ ~skip_scan_state_found_null(s)

\* skip_scan_state_get_skipkey: the slot (1-based here) of the skip key
skip_scan_state_get_skipkey == skip_qual_offset + 1

skip_scan_state_remove_skip_qual(s) ==
    LET start == skip_scan_state_get_skipkey
        keys_to_move == s.num_scan_keys - skip_qual_offset - 1
    IN [s EXCEPT !.skip_qual = s.scan_keys[start],
                 !.scan_keys =
                     [j \in 1 .. Len(s.scan_keys) |->
                        IF keys_to_move > 0 /\ j >= start /\ j < start + keys_to_move
                        THEN s.scan_keys[j + 1] ELSE s.scan_keys[j]],
                 !.num_scan_keys = @ - 1,
                 !.skip_qual_removed = TRUE]

skip_scan_state_readd_skip_qual_if_needed(s) ==
    IF s.skip_qual_removed
    THEN LET keys_to_move == s.num_scan_keys - skip_qual_offset
             start == skip_scan_state_get_skipkey
         IN [s EXCEPT !.skip_qual_removed = FALSE,
                      !.num_scan_keys = @ + 1,
                      !.scan_keys =
                          [j \in 1 .. Len(s.scan_keys) |->
                             IF j = start THEN s.skip_qual
                             ELSE IF keys_to_move > 0 /\ j > start
                                     /\ j <= start + keys_to_move
                             THEN s.scan_keys[j - 1] ELSE s.scan_keys[j]]]
    ELSE s

\* a populate whose two additional searches have their search flags swapped
populate_swaps_additional_search(s, flags) ==
    IF skip_scan_state_is_searching_for_null(s)
    THEN {SK_SEARCHNOTNULL, SK_ISNULL}
    ELSE IF skip_scan_state_is_searching_for_val(s)
    THEN {SK_SEARCHNULL, SK_ISNULL}
    ELSE IF s.prev_is_null
    THEN (IF skip_scan_state_found_null(s) THEN flags \ {SK_SEARCHNULL} ELSE flags)
         \cup {SK_ISNULL}
    ELSE (IF skip_scan_state_found_val(s) THEN flags \ {SK_SEARCHNOTNULL} ELSE flags)
         \ {SK_ISNULL}

\* a populate that leaves the search-non-NULL flag in place when it sets up
\* the comparison against the previous value
populate_keeps_search_flags(s, flags) ==
    IF skip_scan_state_is_searching_for_null(s)
    THEN {SK_SEARCHNULL, SK_ISNULL}
    ELSE IF skip_scan_state_is_searching_for_val(s)
    THEN {SK_SEARCHNOTNULL, SK_ISNULL}
    ELSE IF s.prev_is_null
    THEN (IF skip_scan_state_found_null(s) THEN flags \ {SK_SEARCHNULL} ELSE flags)
         \cup {SK_ISNULL}
    ELSE flags \ {SK_ISNULL}

\* the sk_flags skip_scan_state_populate_skip_qual leaves in the skip key
PopulatedFlags(s, flags) ==
    IF skip_scan_state_is_searching_for_null(s)
    THEN {SK_SEARCHNULL, SK_ISNULL}
    ELSE IF skip_scan_state_is_searching_for_val(s)
    THEN {SK_SEARCHNOTNULL, SK_ISNULL}
    ELSE IF s.prev_is_null
    THEN (IF skip_scan_state_found_null(s) THEN flags \ {SK_SEARCHNULL} ELSE flags)
         \cup {SK_ISNULL}
    ELSE (IF skip_scan_state_found_val(s) THEN flags \ {SK_SEARCHNOTNULL} ELSE flags)
         \ {SK_ISNULL}

\* a populate that forgets to store the previous value as the comparison bound
populate_keeps_old_bound(s) ==
    LET key == skip_scan_state_get_skipkey IN
    [s EXCEPT !.scan_keys[key].sk_flags = PopulatedFlags(s, @)]

skip_scan_state_populate_skip_qual(s) ==
    LET key == skip_scan_state_get_skipkey IN
    [s EXCEPT !.scan_keys[key].sk_argument = s.prev_distinct_val,
              !.scan_keys[key].sk_flags = PopulatedFlags(s, @),
              !.heap.bound = IF idx_scan.distinct_by_val \/ s.prev_is_null
                             THEN "none"
                             ELSE IF s.heap.owned THEN "live" ELSE "freed"]

\* a beginscan that does not end the descriptor it replaces
beginscan_without_endscan(s) ==
    [s EXCEPT !.scan_desc = index_beginscan(s.num_scan_keys),
              !.handles = HandleBegun(@, s.scan_desc, s.num_scan_keys),
              !.index_only_buffer = IF idx_scan.type = "IndexOnlyScan" THEN 0 ELSE @,
              !.pins.leaked = @ \/ (idx_scan.type = "IndexOnlyScan"
                                    /\ s.index_only_buffer # 0)]

\* index_endscan of the old descriptor, index_beginscan of a new one; for an
\* index-only scan the buffer number is overwritten with InvalidBuffer
skip_scan_state_beginscan(s) ==
    [s EXCEPT !.scan_desc = index_beginscan(s.num_scan_keys),
              !.handles = HandleBegun(IF s.scan_desc.valid
                                      THEN index_endscan(@, s.scan_desc) ELSE @,
                                      s.scan_desc, s.num_scan_keys),
              !.index_only_buffer = IF idx_scan.type = "IndexOnlyScan" THEN 0 ELSE @,
              !.pins.leaked = @ \/ (idx_scan.type = "IndexOnlyScan"
                                    /\ s.index_only_buffer # 0)]

\* an update that overwrites the stage with the mark of the new row alone
update_overwrites_stage(s, slot) ==
    LET isnull == slot.k = NullKey IN
    [s EXCEPT !.prev_is_null = isnull,
              !.prev_distinct_val = IF isnull THEN 0 ELSE slot.k,
              !.stage = IF isnull THEN SkipScanFoundNull ELSE SkipScanFoundVal]

\* pfree(DatumGetPointer(state->prev_distinct_val))
pfree(h) ==
    IF h.owned
    THEN [h EXCEPT !.owned = FALSE,
                   !.bound = IF @ = "live" THEN "freed" ELSE @]
    ELSE [h EXCEPT !.bad_free = TRUE]

\* datumCopy of a non-NULL value into the current memory context
datumCopy(h, by_val, outcome) ==
    IF by_val THEN h
    ELSE IF outcome = "crash" THEN [h EXCEPT !.crashed = TRUE]
    ELSE [h EXCEPT !.owned = TRUE, !.lost = @ \/ h.owned]

\* an update that leaves the searching-for-additional mark in the stage
update_keeps_additional(s, slot) ==
    LET isnull == slot.k = NullKey
        h1 == IF ~s.prev_is_null /\ ~idx_scan.distinct_by_val
              THEN pfree(s.heap) ELSE s.heap
        h2 == IF isnull
              THEN [h1 EXCEPT !.owned = FALSE, !.lost = @ \/ h1.owned]
              ELSE datumCopy(h1, idx_scan.distinct_by_val, s.palloc)
        found == IF isnull THEN BitOr(s.stage, SkipScanFoundNull)
                 ELSE BitOr(s.stage, SkipScanFoundVal)
    IN [s EXCEPT !.prev_is_null = isnull,
                 !.prev_distinct_val = IF isnull THEN 0 ELSE slot.k,
                 !.heap = h2,
                 !.stage = found]

update_skip_key(s, slot) ==
    LET isnull == slot.k = NullKey
        h1 == IF ~s.prev_is_null /\ ~idx_scan.distinct_by_val
              THEN pfree(s.heap) ELSE s.heap
        h2 == IF isnull
              THEN [h1 EXCEPT !.owned = FALSE, !.lost = @ \/ h1.owned]
              ELSE datumCopy(h1, idx_scan.distinct_by_val, s.palloc)
        found == IF isnull THEN BitOr(s.stage, SkipScanFoundNull)
                 ELSE BitOr(s.stage, SkipScanFoundVal)
    IN [s EXCEPT !.prev_is_null = isnull,
                 !.prev_distinct_val = IF isnull THEN 0 ELSE slot.k,
                 !.heap = h2,
                 !.stage = IF h2.crashed THEN found
                           ELSE BitClear(found, SkipScanSearchingForAdditional)]

\* a set-up that begins a new descriptor on every call
setup_always_begins(s) ==
    IF skip_scan_is_searching_for_first_val(s)
    THEN LET a == skip_scan_state_beginscan(skip_scan_state_remove_skip_qual(s))
         IN [a EXCEPT !.scan_desc = index_rescan(@, a.scan_keys, a.num_scan_keys),
                      !.handles = HandleSought(@, a.scan_desc, a.num_scan_keys)]
    ELSE LET a == skip_scan_state_readd_skip_qual_if_needed(s)
             b == skip_scan_state_beginscan(a)
             c == skip_scan_state_populate_skip_qual(b)
         IN [c EXCEPT !.scan_desc = index_rescan(@, c.scan_keys, c.num_scan_keys),
                      !.handles = HandleSought(@, c.scan_desc, c.num_scan_keys)]

\* the first half of skip_scan_exec: set up the keys and re-seek the index
ExecSetupScan(s) ==
    IF skip_scan_is_searching_for_first_val(s)
    THEN LET a == skip_scan_state_beginscan(skip_scan_state_remove_skip_qual(s))
         IN [a EXCEPT !.scan_desc = index_rescan(@, a.scan_keys, a.num_scan_keys),
                      !.handles = HandleSought(@, a.scan_desc, a.num_scan_keys)]
    ELSE LET a == skip_scan_state_readd_skip_qual_if_needed(s)
             b == IF s.skip_qual_removed THEN skip_scan_state_beginscan(a) ELSE a
             c == skip_scan_state_populate_skip_qual(b)
         IN [c EXCEPT !.scan_desc = index_rescan(@, c.scan_keys, c.num_scan_keys),
                      !.handles = HandleSought(@, c.scan_desc, c.num_scan_keys)]

RECURSIVE skip_scan_exec(_)
RECURSIVE skip_scan_search_for_null(_)
RECURSIVE skip_scan_search_for_nonnull(_)

\* a search for an additional NULL that marks the stage as searching for an
\* additional value
search_for_null_marks_val(s) ==
    skip_scan_exec([s EXCEPT !.stage = BitOr(@, SkipScanSearchingForVal),
                             !.reached_end = IF idx_scan.type = "IndexScan"
                                             THEN FALSE ELSE @,
                             !.probes.null = @ + 1,
                             !.probes.depth = @ + 1])

skip_scan_search_for_null(s) ==
    skip_scan_exec([s EXCEPT !.stage = BitOr(@, SkipScanSearchingForNull),
                             !.reached_end = IF idx_scan.type = "IndexScan"
                                             THEN FALSE ELSE @,
                             !.probes.null = @ + 1,
                             !.probes.depth = @ + 1])

skip_scan_search_for_nonnull(s) ==
    skip_scan_exec([s EXCEPT !.stage = BitOr(@, SkipScanSearchingForVal),
                             !.reached_end = IF idx_scan.type = "IndexScan"
                                             THEN FALSE ELSE @,
                             !.probes.val = @ + 1,
                             !.probes.depth = @ + 1])

skip_scan_exec(s) ==
    LET s2 == ExecProcNode(ExecSetupScan(s)) IN
    IF s2.result # NoRow THEN update_skip_key(s2, s2.result)
    ELSE IF skip_scan_state_found_everything(s2) THEN s2
    ELSE IF skip_scan_is_finished(s2) THEN s2
    ELSE IF ~skip_scan_state_found_null(s2) THEN skip_scan_search_for_null(s2)
    ELSE IF ~skip_scan_state_found_val(s2) THEN skip_scan_search_for_nonnull(s2)
    ELSE s2

(***************************************************************************)
(* State machine: the executor's calls on the node.                         *)
(***************************************************************************)
ZeroKey == [sk_attno |-> 0, sk_strategy |-> InvalidStrategy,
            sk_argument |-> 0, sk_flags |-> {}, qual |-> 0]

\* out records the first MaxOut rows a generation returns; a generation of a
\* sound run has at most MaxRows, and get-next goes on after MaxOut rows
MaxOut == MaxRows + 2

\* the planner at rest: no path set under work
NoPlanning == [before |-> <<>>, status |-> "idle", guc_reads |-> {},
               offered |-> <<>>]

\* the table columns of the index of an executor run: the index (k, t) of
\* table (k, t), or the index (lead, k, t) of table (k, t, lead)
ExecIndexKeys(distinct_column) ==
    IF distinct_column = 0 THEN <<1, 2>> ELSE <<3, 1, 2>>

\* the skip-scan path of an executor run, as create_index_skip_scan_path
\* builds it over the index path of a dedup path; norderbys order-by keys
\* are put in afterwards (the selector emits no such path)
ExecPath(distinct_column, reverse_sort, dir, by_val, norderbys) ==
    LET index_path == [IndexPathOK EXCEPT
                          !.indexkeys = ExecIndexKeys(distinct_column),
                          !.col = distinct_column,
                          !.reverse_sort = reverse_sort,
                          !.indexscandir = dir,
                          !.attbyval = by_val]
        path == create_index_skip_scan_path(
                    UpperUniquePath(index_path, 1, 16, FALSE), index_path, FALSE)
    IN [path EXCEPT !.index_path.indexorderbys = norderbys]

\* the plans of the executor runs: by-value distinct column (the INT columns
\* of the tests), IndexScan or IndexOnlyScan, either direction
ExecPlans(idx) ==
    {skip_scan_plan_create(
         ExecPath(up.distinct_column, idx.reverse_sort, dir, TRUE, 0), up, type) :
        up \in UserPlans, type \in {"IndexScan", "IndexOnlyScan"},
        dir \in {ForwardScanDirection, BackwardScanDirection}}

\* the skip-scan paths of the lifecycle runs: by-value and by-reference
\* distinct columns, either direction, and a path whose index path has an
\* order-by key
LifecyclePaths(idx) ==
    {ExecPath(0, idx.reverse_sort, dir, by_val, 0) :
        dir \in {ForwardScanDirection, BackwardScanDirection},
        by_val \in BOOLEAN}
    \cup {ExecPath(0, idx.reverse_sort, ForwardScanDirection, TRUE, 1)}

\* the user plans of the lifecycle runs: no index condition besides the skip
\* qual
LifecycleUserPlans == {up \in UserPlans : up.indexqual = <<>>}

\* inner plans of another kind than skip_scan_plan_create lets through,
\* handed to a node all the same
UnknownSubscanPlans(idx) ==
    {[skip_scan_plan_create(
          ExecPath(up.distinct_column, idx.reverse_sort, ForwardScanDirection,
                   TRUE, 0), up, "IndexScan")
         EXCEPT !.type = "BitmapHeapScan"] : up \in LifecycleUserPlans}

\* ts_skip_scan_state_create: the node state for a plan, before it is opened
InitState ==
    /\ param \in ParamVals
    /\ stage = SkipScanSearchingForFirst
    /\ prev_distinct_val = 0
    /\ prev_is_null = FALSE
    /\ skip_qual = ZeroKey
    /\ skip_qual_offset = 0
    /\ skip_qual_removed = FALSE
    /\ scan_keys = <<>>
    /\ num_scan_keys = 0
    /\ runtime_keys = <<>>
    /\ RuntimeKeysReady = FALSE
    /\ scan_desc = NoScanDesc
    /\ reached_end = FALSE
    /\ index_only_buffer = 0
    /\ result = NoRow
    /\ out = <<>>
    /\ exhausted = FALSE
    /\ probes = NoProbes
    /\ late_calls = 0
    /\ heap = NoHeap
    /\ pins = NoPins
    /\ handles = NoHandles

\* planning is over: the switch is on and the plan is given
PlanningDone ==
    /\ ts_guc_enable_skip_scan = TRUE
    /\ output_rel = [pathlist |-> <<>>]
    /\ planning = NoPlanning

Init ==
    /\ table \in Tables
    /\ index \in IndexShapes
    /\ idx_scan \in ExecPlans(index)
    /\ phase = "created"
    /\ InitState
    /\ PlanningDone

\* a skip_scan_begin without the check of the inner scan's order-by keys
begin_accepts_orderbys ==
    /\ phase = "created"
    /\ IF idx_scan.type \notin {"IndexScan", "IndexOnlyScan"}
       THEN /\ phase' = "error"
            /\ UNCHANGED <<num_scan_keys, skip_qual, skip_qual_offset, scan_keys,
                           runtime_keys, prev_distinct_val, prev_is_null, stage,
                           skip_qual_removed>>
       ELSE /\ LET keys == ExecIndexBuildScanKeys(idx_scan.indexqual)
                   rks == BuildRuntimeKeys(idx_scan.indexqual, 1)
                   num == Len(keys)
                   off == IF num <= 0 THEN 0 ELSE FixupOffset(keys, num, keys[1], 0)
               IN /\ num_scan_keys' = num
                  /\ skip_qual' = IF num <= 0 THEN skip_qual ELSE keys[1]
                  /\ skip_qual_offset' = off
                  /\ scan_keys' = IF num <= 0 THEN keys ELSE FixupKeys(keys, keys[1], off)
                  /\ runtime_keys' = IF num <= 0 THEN rks ELSE FixupRuntimeKeys(rks, off)
            /\ phase' = "open"
            /\ prev_distinct_val' = 0
            /\ prev_is_null' = TRUE
            /\ stage' = SkipScanSearchingForFirst
            /\ skip_qual_removed' = FALSE
    /\ UNCHANGED <<table, index, idx_scan, param, RuntimeKeysReady, scan_desc,
                   reached_end, index_only_buffer, result, out, exhausted, probes,
                   late_calls, heap, pins, handles>>
    /\ UNCHANGED plan_vars

\* skip_scan_begin: reject unknown inner plans, initialise the inner node
\* (ExecInitNode builds its scan keys and runtime keys, which the state then
\* points at), reject order-by keys, take scan key 0 as the skip qual and
\* move it to the first slot of its column
skip_scan_begin ==
    /\ phase = "created"
    /\ IF idx_scan.type \notin {"IndexScan", "IndexOnlyScan"}
       THEN /\ phase' = "error"
            /\ UNCHANGED <<num_scan_keys, skip_qual, skip_qual_offset, scan_keys,
                           runtime_keys, prev_distinct_val, prev_is_null, stage,
                           skip_qual_removed>>
       ELSE IF idx_scan.indexorderby > 0
       THEN /\ phase' = "error"
            /\ scan_keys' = ExecIndexBuildScanKeys(idx_scan.indexqual)
            /\ num_scan_keys' = Len(scan_keys')
            /\ runtime_keys' = BuildRuntimeKeys(idx_scan.indexqual, 1)
            /\ UNCHANGED <<skip_qual, skip_qual_offset, prev_distinct_val,
                           prev_is_null, stage, skip_qual_removed>>
       ELSE /\ LET keys == ExecIndexBuildScanKeys(idx_scan.indexqual)
                   rks == BuildRuntimeKeys(idx_scan.indexqual, 1)
                   num == Len(keys)
                   off == IF num <= 0 THEN 0 ELSE FixupOffset(keys, num, keys[1], 0)
               IN /\ num_scan_keys' = num
                  /\ skip_qual' = IF num <= 0 THEN skip_qual ELSE keys[1]
                  /\ skip_qual_offset' = off
                  /\ scan_keys' = IF num <= 0 THEN keys ELSE FixupKeys(keys, keys[1], off)
                  /\ runtime_keys' = IF num <= 0 THEN rks ELSE FixupRuntimeKeys(rks, off)
            /\ phase' = "open"
            /\ prev_distinct_val' = 0
            /\ prev_is_null' = TRUE
            /\ stage' = SkipScanSearchingForFirst
            /\ skip_qual_removed' = FALSE
    /\ UNCHANGED <<table, index, idx_scan, param, RuntimeKeysReady, scan_desc,
                   reached_end, index_only_buffer, result, out, exhausted, probes,
                   late_calls, heap, pins, handles>>
    /\ UNCHANGED plan_vars

\* what a call of skip_scan_exec that ended in state s leaves behind: the
\* node's fields, and the row handed to the caller unless the call died
ExecReturn(s) ==
    /\ stage' = s.stage
    /\ prev_distinct_val' = s.prev_distinct_val
    /\ prev_is_null' = s.prev_is_null
    /\ skip_qual' = s.skip_qual
    /\ skip_qual_removed' = s.skip_qual_removed
    /\ scan_keys' = s.scan_keys
    /\ num_scan_keys' = s.num_scan_keys
    /\ RuntimeKeysReady' = s.RuntimeKeysReady
    /\ scan_desc' = s.scan_desc
    /\ reached_end' = s.reached_end
    /\ index_only_buffer' = s.index_only_buffer
    /\ result' = IF s.heap.crashed THEN NoRow ELSE s.result
    /\ probes' = s.probes
    /\ heap' = s.heap
    /\ pins' = s.pins
    /\ handles' = s.handles
    /\ out' = IF s.result # NoRow /\ ~exhausted /\ ~s.heap.crashed
                 /\ Len(out) < MaxOut
              THEN Append(out, s.result) ELSE out
    /\ exhausted' = (exhausted \/ (s.result = NoRow /\ ~s.heap.crashed))
    /\ phase' = IF s.heap.crashed THEN "crashed" ELSE phase
    /\ UNCHANGED <<table, index, idx_scan, param, skip_qual_offset,
                   runtime_keys>>
    /\ UNCHANGED plan_vars

\* one call of skip_scan_exec, with the retry it may make
DoExec ==
    \E outcome \in PallocOutcomes :
        ExecReturn(skip_scan_exec([State EXCEPT !.probes.pulls = 0,
                                                !.probes.depth = 0,
                                                !.handles.begins = 0,
                                                !.handles.seeks = 0,
                                                !.palloc = outcome]))

\* get-next while the generation has not reported its end
ExecCustomScan ==
    /\ phase = "open"
    /\ ~exhausted
    /\ DoExec
    /\ UNCHANGED late_calls

\* get-next called again after the generation reported its end
ExecAfterEnd ==
    /\ phase = "open"
    /\ exhausted
    /\ late_calls < MaxLateCalls
    /\ DoExec
    /\ late_calls' = late_calls + 1

\* skip_scan_rescan, after the executor set the parameter for the next run
skip_scan_rescan ==
    /\ phase = "open"
    /\ param' \in ParamVals
    /\ LET a == skip_scan_state_readd_skip_qual_if_needed(
                    [State EXCEPT !.scan_desc = NoScanDesc])
           keys == ExecIndexEvalRuntimeKeys(a.scan_keys, runtime_keys, 1, param')
       IN /\ scan_desc' = NoScanDesc
          /\ skip_qual_removed' = a.skip_qual_removed
          /\ num_scan_keys' = a.num_scan_keys
          /\ scan_keys' = keys
          /\ RuntimeKeysReady' = TRUE
          /\ reached_end' = FALSE
    /\ prev_distinct_val' = 0
    /\ prev_is_null' = TRUE
    /\ stage' = SkipScanSearchingForFirst
    /\ heap' = [heap EXCEPT !.owned = FALSE, !.lost = @ \/ heap.owned]
    /\ result' = NoRow
    /\ out' = <<>>
    /\ exhausted' = FALSE
    /\ probes' = NoProbes
    /\ handles' = [(IF scan_desc.valid THEN index_endscan(handles, scan_desc)
                    ELSE handles) EXCEPT !.begins = 0, !.seeks = 0]
    /\ UNCHANGED <<table, index, idx_scan, phase, skip_qual, skip_qual_offset,
                   runtime_keys, index_only_buffer, late_calls, pins>>
    /\ UNCHANGED plan_vars

\* ExecEndNode on the inner node: ExecEndIndexOnlyScan releases the
\* visibility-map buffer if its number is valid, and both scan kinds end the
\* scan descriptor if there is one; the node keeps its pointer to the ended
\* descriptor
ExecEndNode(buffer, released) ==
    [index_only_buffer |-> 0,
     scan_desc |-> IF scan_desc.valid THEN [scan_desc EXCEPT !.ended = TRUE]
                   ELSE scan_desc,
     bad_release |-> idx_scan.type = "IndexOnlyScan" /\ buffer # 0 /\ released]

\* skip_scan_end: release the index-only buffer if one is held, then end the
\* inner node
skip_scan_end ==
    /\ phase = "open"
    /\ LET released == idx_scan.type = "IndexOnlyScan" /\ index_only_buffer # 0
           e == ExecEndNode(index_only_buffer, released)
       IN /\ index_only_buffer' = e.index_only_buffer
          /\ scan_desc' = e.scan_desc
          /\ pins' = [pins EXCEPT !.bad_release = @ \/ e.bad_release]
    /\ handles' = IF scan_desc.valid THEN index_endscan(handles, scan_desc)
                  ELSE handles
    /\ phase' = "closed"
    /\ UNCHANGED <<table, index, idx_scan, param, stage, prev_distinct_val,
                   prev_is_null, skip_qual, skip_qual_offset, skip_qual_removed,
                   scan_keys, num_scan_keys, runtime_keys, RuntimeKeysReady,
                   reached_end, result, out, exhausted, probes, late_calls, heap>>
    /\ UNCHANGED plan_vars

\* the executor's protocol: no get-next after the end without a rescan
Next == skip_scan_begin \/ ExecCustomScan \/ skip_scan_rescan

Spec == Init /\ [][Next]_vars

\* any sequence of get-next and rescan calls
NextAnyCalls == skip_scan_begin \/ ExecCustomScan \/ ExecAfterEnd \/ skip_scan_rescan

SpecAnyCalls == Init /\ [][NextAnyCalls]_vars

(***************************************************************************)
(* Planning: the path selector (planner.c).                                 *)
(***************************************************************************)

\* the index paths of the planner runs: the sound one, one scanned backward,
\* two over a descending column, one whose DISTINCT column is the second
\* index column, and one for each lookup that can fail
IndexPaths ==
    {IndexPathOK,
     [IndexPathOK EXCEPT !.indexscandir = BackwardScanDirection, !.attbyval = FALSE],
     [IndexPathOK EXCEPT !.reverse_sort = TRUE],
     [IndexPathOK EXCEPT !.reverse_sort = TRUE,
                         !.indexscandir = BackwardScanDirection],
     [IndexPathOK EXCEPT !.sortopfamily = "NULL"],
     [IndexPathOK EXCEPT !.indexorderbys = 1],
     [IndexPathOK EXCEPT !.tlist_col = FALSE],
     [IndexPathOK EXCEPT !.indexkeys = <<0, 1>>],
     [IndexPathOK EXCEPT !.col = 1],
     [IndexPathOK EXCEPT !.att_valid = FALSE],
     [IndexPathOK EXCEPT !.type_valid = FALSE],
     [IndexPathOK EXCEPT !.comparator_valid = FALSE]}

\* a sorted path that is not an index path
SortPath ==
    [type |-> "SortPath", total_cost |-> 8, rows |-> 4, parallel_safe |-> FALSE,
     pathkeys |-> 1]

\* the branch lists of the merge paths of the planner runs
MergeBranches ==
    LET ok == IndexPathOK
        nocmp == [IndexPathOK EXCEPT !.comparator_valid = FALSE]
        nocol == [IndexPathOK EXCEPT !.tlist_col = FALSE]
    IN {<<ok, ok>>, <<ok, nocmp>>, <<nocmp, ok>>, <<nocmp, nocmp>>,
        <<ok, SortPath>>, <<SortPath, SortPath>>, <<ok, nocol>>,
        <<ok, ok, nocmp>>}

MergeAppendPath(subpaths, cost, psafe) ==
    [type |-> "MergeAppendPath", total_cost |-> cost, rows |-> 4,
     parallel_safe |-> psafe, pathkeys |-> 1, subpaths |-> subpaths]

\* cost and parallel safety of the candidate paths
PathHeaders == {[cost |-> 16, psafe |-> FALSE], [cost |-> 64, psafe |-> TRUE]}

\* the paths the planner may have put in the DISTINCT rel before the hook runs
CandidatePaths ==
    {UpperUniquePath(ip, 1, h.cost, h.psafe) : ip \in IndexPaths, h \in PathHeaders}
    \cup {UpperUniquePath(IndexPathOK, 2, h.cost, h.psafe) : h \in PathHeaders}
    \cup {UpperUniquePath(SortPath, 1, h.cost, h.psafe) : h \in PathHeaders}
    \cup {UpperUniquePath(MergeAppendPath(b, h.cost, h.psafe), 1, h.cost, h.psafe) :
             b \in MergeBranches, h \in PathHeaders}
    \cup {[type |-> "AggPath", total_cost |-> 32, rows |-> 2,
           parallel_safe |-> FALSE, pathkeys |-> 0]}

\* compare_path_costs_fuzzily on total cost (every path of the model has the
\* same startup cost); fuzz is in percent
compare_path_costs_fuzzily(path1, path2, fuzz) ==
    IF 100 * path1.total_cost > fuzz * path2.total_cost THEN "COSTS_BETTER2"
    ELSE IF 100 * path2.total_cost > fuzz * path1.total_cost THEN "COSTS_BETTER1"
    ELSE "COSTS_EQUAL"

compare_pathkeys(keys1, keys2) ==
    IF keys1 = keys2 THEN "PATHKEYS_EQUAL"
    ELSE IF keys1 > keys2 THEN "PATHKEYS_BETTER1" ELSE "PATHKEYS_BETTER2"

\* add_path, the verdict on one old path: whether it is removed and whether
\* the new path is still accepted
AddPathVerdict(new_path, old_path) ==
    LET costcmp == compare_path_costs_fuzzily(new_path, old_path, 101)
        keyscmp == compare_pathkeys(new_path.pathkeys, old_path.pathkeys)
        new_wins == /\ new_path.rows <= old_path.rows
                    /\ (new_path.parallel_safe \/ ~old_path.parallel_safe)
        old_wins == /\ new_path.rows >= old_path.rows
                    /\ (old_path.parallel_safe \/ ~new_path.parallel_safe)
        keep == [remove_old |-> FALSE, accept_new |-> TRUE]
        remove == [remove_old |-> TRUE, accept_new |-> TRUE]
        reject == [remove_old |-> FALSE, accept_new |-> FALSE]
    IN CASE costcmp = "COSTS_EQUAL" /\ keyscmp = "PATHKEYS_BETTER1" ->
                IF new_wins THEN remove ELSE keep
         [] costcmp = "COSTS_EQUAL" /\ keyscmp = "PATHKEYS_BETTER2" ->
                IF old_wins THEN reject ELSE keep
         [] costcmp = "COSTS_EQUAL" /\ keyscmp = "PATHKEYS_EQUAL" ->
                IF new_path.parallel_safe /\ ~old_path.parallel_safe THEN remove
                ELSE IF old_path.parallel_safe /\ ~new_path.parallel_safe THEN reject
                ELSE IF new_path.rows < old_path.rows THEN remove
                ELSE IF new_path.rows > old_path.rows THEN reject
                ELSE IF new_path.total_cost < old_path.total_cost THEN remove
                ELSE reject
         [] costcmp = "COSTS_BETTER1" ->
                IF keyscmp # "PATHKEYS_BETTER2" /\ new_wins THEN remove ELSE keep
         [] costcmp = "COSTS_BETTER2" ->
                IF keyscmp # "PATHKEYS_BETTER1" /\ old_wins THEN reject ELSE keep

RECURSIVE AddPathScan(_, _, _, _)
\* add_path, the loop over the old paths from position i: kept is the list so
\* far without the removed paths, insert_after the place found for the new one
AddPathScan(pathlist, new_path, i, acc) ==
    IF i > Len(pathlist) THEN acc
    ELSE LET old_path == pathlist[i]
             v == AddPathVerdict(new_path, old_path)
             acc1 == IF v.remove_old THEN acc
                     ELSE [acc EXCEPT
                             !.kept = Append(@, old_path),
                             !.insert_after =
                                 IF new_path.total_cost >= old_path.total_cost
                                 THEN Len(acc.kept) + 1 ELSE @]
         IN IF ~v.accept_new
            THEN [acc1 EXCEPT !.accept_new = FALSE,
                              !.kept = @ \o SubSeq(pathlist, i + 1, Len(pathlist))]
            ELSE AddPathScan(pathlist, new_path, i + 1, acc1)

\* add_path: drop the old paths the new one dominates, and insert the new one
\* in cost order unless an old path dominates it
add_path(pathlist, new_path) ==
    LET r == AddPathScan(pathlist, new_path, 1,
                         [kept |-> <<>>, insert_after |-> 0, accept_new |-> TRUE])
    IN IF r.accept_new
       THEN SubSeq(r.kept, 1, r.insert_after) \o <<new_path>>
            \o SubSeq(r.kept, r.insert_after + 1, Len(r.kept))
       ELSE r.kept

RECURSIVE IsPowerOfTwo(_)
IsPowerOfTwo(n) ==
    IF n <= 1 THEN n = 1 ELSE n % 2 = 0 /\ IsPowerOfTwo(n \div 2)

RECURSIVE Log2(_)
\* log2 of a cost: the integer k when the cost is 2^k, as for every cost of
\* the model; for any other cost the real number log2(n), which is not an
\* integer (minus infinity for 0) and is kept as the term [log2 |-> n]
Log2(n) ==
    IF ~IsPowerOfTwo(n) THEN [log2 |-> n]
    ELSE IF n = 1 THEN 0
    ELSE 1 + Log2(n \div 2)

RECURSIVE ConvertSubpaths(_, _, _, _)
\* the loop over the branches of a merge path, from branch i: every index
\* branch that converts is replaced, every other branch is kept as it is
ConvertSubpaths(unique_path, subpaths, i, acc) ==
    IF i > Len(subpaths) THEN acc
    ELSE LET sub_path == subpaths[i]
             skip_scan_path == IF sub_path.type = "IndexPath"
                               THEN create_index_skip_scan_path(unique_path, sub_path, TRUE)
                               ELSE NoPath
         IN IF skip_scan_path = ErrorPath THEN [acc EXCEPT !.error = TRUE]
            ELSE IF skip_scan_path # NoPath
            THEN ConvertSubpaths(unique_path, subpaths, i + 1,
                     [acc EXCEPT !.new_paths = Append(@, skip_scan_path),
                                 !.can_skip_scan = TRUE])
            ELSE ConvertSubpaths(unique_path, subpaths, i + 1,
                     [acc EXCEPT !.new_paths = Append(@, sub_path)])

\* a loop body that does not look at the number of keys of the dedup path
candidate_ignores_numkeys(path) ==
    LET nothing == [offer |-> NoPath, go |-> "continue"]
    IN IF path.type # "UpperUniquePath" THEN nothing
       ELSE IF path.subpath.type = "IndexPath"
       THEN LET skip_scan_path == create_index_skip_scan_path(path, path.subpath, FALSE)
            IN IF skip_scan_path = ErrorPath THEN [offer |-> NoPath, go |-> "error"]
               ELSE IF skip_scan_path = NoPath THEN nothing
               ELSE [offer |-> [skip_scan_path EXCEPT !.total_cost = Log2(path.total_cost)],
                     go |-> "continue"]
       ELSE IF path.subpath.type = "MergeAppendPath"
       THEN LET merge_path == path.subpath
                c == ConvertSubpaths(path, merge_path.subpaths, 1,
                        [new_paths |-> <<>>, can_skip_scan |-> FALSE, error |-> FALSE])
                new_merge_path == [merge_path EXCEPT
                                     !.subpaths = c.new_paths,
                                     !.parallel_safe = FALSE,
                                     !.total_cost = Log2(merge_path.total_cost)]
                new_unique_path == [path EXCEPT
                                      !.subpath = new_merge_path,
                                      !.parallel_safe = FALSE,
                                      !.total_cost = Log2(path.total_cost)]
            IN IF c.error THEN [offer |-> NoPath, go |-> "error"]
               ELSE IF ~c.can_skip_scan THEN [offer |-> NoPath, go |-> "return"]
               ELSE [offer |-> new_unique_path, go |-> "continue"]
       ELSE nothing

\* the body of the loop of ts_add_skip_scan_paths for one path of the list:
\* what is offered to add_path (NoPath: nothing) and how the loop goes on
\* ("continue", "return" or "error")
SkipScanCandidate(path) ==
    LET nothing == [offer |-> NoPath, go |-> "continue"]
    IN IF path.type # "UpperUniquePath" THEN nothing
       ELSE IF path.numkeys > 1 THEN nothing
       ELSE IF path.subpath.type = "IndexPath"
       THEN LET skip_scan_path == create_index_skip_scan_path(path, path.subpath, FALSE)
            IN IF skip_scan_path = ErrorPath THEN [offer |-> NoPath, go |-> "error"]
               ELSE IF skip_scan_path = NoPath THEN nothing
               ELSE [offer |-> [skip_scan_path EXCEPT !.total_cost = Log2(path.total_cost)],
                     go |-> "continue"]
       ELSE IF path.subpath.type = "MergeAppendPath"
       THEN LET merge_path == path.subpath
                c == ConvertSubpaths(path, merge_path.subpaths, 1,
                        [new_paths |-> <<>>, can_skip_scan |-> FALSE, error |-> FALSE])
                new_merge_path == [merge_path EXCEPT
                                     !.subpaths = c.new_paths,
                                     !.parallel_safe = FALSE,
                                     !.total_cost = Log2(merge_path.total_cost)]
                new_unique_path == [path EXCEPT
                                      !.subpath = new_merge_path,
                                      !.parallel_safe = FALSE,
                                      !.total_cost = Log2(path.total_cost)]
            IN IF c.error THEN [offer |-> NoPath, go |-> "error"]
               ELSE IF ~c.can_skip_scan THEN [offer |-> NoPath, go |-> "return"]
               ELSE [offer |-> new_unique_path, go |-> "continue"]
       ELSE nothing

\* the paths of a list that come after path (none when path is not in it)
PathsAfter(pathlist, path) ==
    LET pos == {i \in 1..Len(pathlist) : pathlist[i] = path}
    IN IF pos = {} THEN <<>>
       ELSE SubSeq(pathlist, (CHOOSE i \in pos : TRUE) + 1, Len(pathlist))

\* what reading the next pointer of a list cell that add_path has freed may
\* give: the old successor (the memory is untouched), the successor of the new
\* path (the cell was handed out again for it), or a crash (the memory was
\* overwritten)
FreedCellOutcomes == {"old_next", "new_next", "crash"}

RECURSIVE SkipScanPathsLoop(_, _, _, _)
\* foreach (lc, pathlist) of ts_add_skip_scan_paths: todo is the part of the
\* list the loop has still to visit
SkipScanPathsLoop(pathlist, todo, offered, freed_cell) ==
    IF todo = <<>> THEN [pathlist |-> pathlist, status |-> "done", offered |-> offered]
    ELSE LET path == todo[1]
             c == SkipScanCandidate(path)
             added == IF c.offer = NoPath THEN pathlist ELSE add_path(pathlist, c.offer)
             offered1 == IF c.offer = NoPath THEN offered ELSE Append(offered, c.offer)
             removed == \A i \in 1..Len(added) : added[i] # path
         IN IF c.go = "error"
            THEN [pathlist |-> pathlist, status |-> "error", offered |-> offered]
            ELSE IF c.go = "return"
            THEN [pathlist |-> pathlist, status |-> "returned", offered |-> offered]
            ELSE IF ~removed
            THEN SkipScanPathsLoop(added, PathsAfter(added, path), offered1, freed_cell)
            ELSE IF freed_cell = "crash"
            THEN [pathlist |-> added, status |-> "crashed", offered |-> offered1]
            ELSE IF freed_cell = "new_next"
            THEN SkipScanPathsLoop(added, PathsAfter(added, c.offer), offered1, freed_cell)
            ELSE SkipScanPathsLoop(added, Tail(todo), offered1, freed_cell)

RECURSIVE AddPaths(_, _)
\* a path list as add_path builds it from the paths given to it
AddPaths(pathlist, paths) ==
    IF paths = <<>> THEN pathlist
    ELSE AddPaths(add_path(pathlist, paths[1]), Tail(paths))

\* the path lists the planner may hand to the hook
PathLists ==
    {AddPaths(<<>>, ps) :
        ps \in UNION {[1..n -> CandidatePaths] : n \in 1..MaxPaths}}

\* the skip-scan paths of a path list: at the top, or as branches of a merge
\* path under a unique path
SkipScanPathsOf(pathlist) ==
    {pathlist[i] : i \in {j \in 1..Len(pathlist) : pathlist[j].type = "CustomPath"}}
    \cup UNION {{pathlist[i].subpath.subpaths[k] :
                    k \in {l \in 1..Len(pathlist[i].subpath.subpaths) :
                            pathlist[i].subpath.subpaths[l].type = "CustomPath"}} :
                i \in {j \in 1..Len(pathlist) :
                        /\ pathlist[j].type = "UpperUniquePath"
                        /\ pathlist[j].subpath.type = "MergeAppendPath"}}

\* planning starts: no plan and no node yet
InitPlanner ==
    /\ table = {}
    /\ index = [nulls_first |-> FALSE, reverse_sort |-> FALSE]
    /\ idx_scan = NoPlan
    /\ phase = "planning"
    /\ InitState
    /\ ts_guc_enable_skip_scan \in BOOLEAN
    /\ output_rel \in [pathlist : PathLists]
    /\ planning = NoPlanning

exec_vars == <<table, index, idx_scan, param, phase, stage, prev_distinct_val,
               prev_is_null, skip_qual, skip_qual_offset, skip_qual_removed,
               scan_keys, num_scan_keys, runtime_keys, RuntimeKeysReady, scan_desc,
               reached_end, index_only_buffer, result, out, exhausted, probes,
               late_calls, heap, pins, handles>>

\* a ts_add_skip_scan_paths that does not look at the switch
hook_ignores_switch ==
    /\ phase = "planning"
    /\ planning.status = "idle"
    /\ \E freed_cell \in FreedCellOutcomes :
          LET r == SkipScanPathsLoop(output_rel.pathlist, output_rel.pathlist,
                                     <<>>, freed_cell)
          IN /\ output_rel' = [output_rel EXCEPT !.pathlist = r.pathlist]
             /\ planning' = [planning EXCEPT
                               !.before = output_rel.pathlist,
                               !.status = r.status,
                               !.offered = r.offered]
    /\ UNCHANGED exec_vars
    /\ UNCHANGED ts_guc_enable_skip_scan

\* ts_add_skip_scan_paths, called once on the DISTINCT rel
ts_add_skip_scan_paths ==
    /\ phase = "planning"
    /\ planning.status = "idle"
    /\ IF ~ts_guc_enable_skip_scan
       THEN /\ output_rel' = output_rel
            /\ planning' = [planning EXCEPT
                              !.before = output_rel.pathlist,
                              !.status = "disabled",
                              !.guc_reads = @ \cup {"ts_add_skip_scan_paths"}]
       ELSE \E freed_cell \in FreedCellOutcomes :
              LET r == SkipScanPathsLoop(output_rel.pathlist, output_rel.pathlist,
                                         <<>>, freed_cell)
              IN /\ output_rel' = [output_rel EXCEPT !.pathlist = r.pathlist]
                 /\ planning' = [planning EXCEPT
                                   !.before = output_rel.pathlist,
                                   !.status = r.status,
                                   !.offered = r.offered,
                                   !.guc_reads = @ \cup {"ts_add_skip_scan_paths"}]
    /\ UNCHANGED exec_vars
    /\ UNCHANGED ts_guc_enable_skip_scan

\* SET timescaledb.enable_skipscan, at any time
set_guc ==
    /\ phase \in {"planning", "created"}
    /\ ts_guc_enable_skip_scan' = ~ts_guc_enable_skip_scan
    /\ UNCHANGED exec_vars
    /\ UNCHANGED <<output_rel, planning>>

\* create_plan on a skip-scan path of the rel: skip_scan_plan_create builds
\* the plan over the plan create_plan made of the index path (its kind is
\* type); an elog(ERROR) ends the query, and no node is made
PlanCustomPath ==
    /\ phase = "planning"
    /\ planning.status \in {"done", "returned"}
    /\ \E best_path \in SkipScanPathsOf(output_rel.pathlist),
          type \in PlanTypes,
          up \in UserPlans, tlist_col \in BOOLEAN :
          /\ up.distinct_column = best_path.distinct_column
          /\ idx_scan' = skip_scan_plan_create(
                          best_path, [up EXCEPT !.tlist_col = tlist_col], type)
    /\ phase' = IF idx_scan'.type = "ERROR" THEN "plan_error" ELSE "created"
    /\ UNCHANGED <<table, index, param, stage, prev_distinct_val,
                   prev_is_null, skip_qual, skip_qual_offset, skip_qual_removed,
                   scan_keys, num_scan_keys, runtime_keys, RuntimeKeysReady, scan_desc,
                   reached_end, index_only_buffer, result, out, exhausted, probes,
                   late_calls, heap, pins, handles>>
    /\ UNCHANGED plan_vars

\* the lifecycle runs start with the skip-scan path chosen and no plan yet,
\* or with a node over a plan of a kind plan creation does not let through
InitLifecycle ==
    /\ table \in Tables
    /\ index \in IndexShapes
    /\ InitState
    /\ ts_guc_enable_skip_scan = TRUE
    /\ \/ /\ phase = "planning"
          /\ idx_scan = NoPlan
          /\ output_rel \in {[pathlist |-> <<path>>] : path \in LifecyclePaths(index)}
          /\ planning = [NoPlanning EXCEPT !.status = "done"]
       \/ /\ phase = "created"
          /\ idx_scan \in UnknownSubscanPlans(index)
          /\ output_rel = [pathlist |-> <<>>]
          /\ planning = NoPlanning

\* the whole life of a node: plan creation, open, get-next, rescan, close
NextLifecycle ==
    PlanCustomPath \/ skip_scan_begin \/ ExecCustomScan \/ skip_scan_rescan
    \/ skip_scan_end

SpecLifecycle == InitLifecycle /\ [][NextLifecycle]_vars

\* planning a DISTINCT query and opening the plan of a skip-scan path
NextPlanner == ts_add_skip_scan_paths \/ set_guc \/ PlanCustomPath \/ skip_scan_begin

SpecPlanner == InitPlanner /\ [][NextPlanner]_vars

(***************************************************************************)
(* The reference: DISTINCT ON over the full ordered scan.                   *)
(***************************************************************************)

\* whether a row satisfies a user index qual under parameter value p
UserQualHolds(q, row, p) ==
    LET v == IndexColValue(row, q.attno) IN
    v # NullKey /\ OpHolds(v, q.op, IF q.isparam THEN p ELSE q.val)

\* the rows that satisfy every non-skip predicate of the plan
Satisfying ==
    {r \in table :
        /\ \A i \in 2 .. Len(idx_scan.indexqual) :
              UserQualHolds(idx_scan.indexqual[i], r, param)
        /\ FilterPasses(r, param)}

\* the distinct values of the distinct column among them (NULL is one value)
RefKeys == {r.k : r \in Satisfying}

\* the row DISTINCT ON keeps for key k: the first in scan order
RefRow(k) ==
    CHOOSE r \in Satisfying :
        r.k = k /\ \A r2 \in Satisfying : (r2.k = k /\ r2 # r) => ScanBefore(r, r2)

OutKeys == {out[i].k : i \in DOMAIN out}

\* the comparison of the skip clause the planner chose
SkipOp == idx_scan.indexqual[1].op

\* NULLs come first in the order the scan visits the index
NullsFirstInScan ==
    index.nulls_first = (idx_scan.indexorderdir = ForwardScanDirection)

\* at least one get-next of the current generation has returned
CalledOnce == phase = "open" /\ (exhausted \/ out # <<>>)

\* the node state right after skip_scan_begin, for the plan of this run; the
\* get-next calls made from it copy a by-reference value as the build does:
\* palloc in the NULL context of state->ctx dereferences it and dies
FreshState ==
    LET keys == ExecIndexBuildScanKeys(idx_scan.indexqual) IN
    [stage |-> SkipScanSearchingForFirst, prev_distinct_val |-> 0,
     prev_is_null |-> TRUE, skip_qual |-> keys[1], skip_qual_removed |-> FALSE,
     scan_keys |-> FixupKeys(keys, keys[1], skip_qual_offset),
     num_scan_keys |-> Len(keys), RuntimeKeysReady |-> FALSE,
     scan_desc |-> NoScanDesc, reached_end |-> FALSE, index_only_buffer |-> 0,
     result |-> NoRow, probes |-> NoProbes, heap |-> NoHeap, pins |-> NoPins,
     handles |-> NoHandles,
     palloc |-> IF ~idx_scan.distinct_by_val /\ ctx = "NULL" THEN "crash"
                ELSE "alloc"]

RECURSIVE RunGeneration(_, _)
\* the rows n get-next calls return from state s, up to the first empty slot
\* or to the call that dies in palloc, which returns nothing
RunGeneration(s, n) ==
    LET s1 == skip_scan_exec(s) IN
    IF n = 0 \/ s1.heap.crashed \/ s1.result = NoRow THEN <<>>
    ELSE <<s1.result>> \o RunGeneration(s1, n - 1)

(***************************************************************************)
(* Claims.                                                                  *)
(***************************************************************************)

\* C1: when a generation has been driven to exhaustion, the rows returned
\* carry exactly the distinct values of the distinct column found among the
\* rows satisfying the non-skip predicates, each once (NULL is one value),
\* and every returned row satisfies the non-skip predicates.
C1_DistinctSetMatchesReference ==
    (phase = "open" /\ exhausted) =>
        /\ OutKeys = RefKeys
        /\ Len(out) = Cardinality(RefKeys)
        /\ \A i \in DOMAIN out : out[i] \in Satisfying

\* C2: within a generation the non-NULL keys returned are strictly increasing
\* when the skip comparison is > and strictly decreasing when it is <, and no
\* key (NULL included) is returned twice.
C2_KeysInIndexOrder ==
    \A i, j \in DOMAIN out :
        i < j =>
            /\ out[i].k # out[j].k
            /\ (out[i].k # NullKey /\ out[j].k # NullKey) =>
                   IF SkipOp = BTGreaterStrategyNumber
                   THEN out[i].k < out[j].k ELSE out[i].k > out[j].k

\* C2 witness: a generation under the < comparison that returned two
\* non-NULL keys and a NULL key
C2_Witness ==
    /\ SkipOp = BTLessStrategyNumber
    /\ exhausted
    /\ Len(out) = 3
    /\ NullKey \in OutKeys

\* C3: every row returned is the first row, in scan order, among the rows
\* with its key that satisfy the non-skip predicates.
C3_FirstRowOfEachKey ==
    \A i \in DOMAIN out :
        out[i] \in Satisfying /\ out[i] = RefRow(out[i].k)

\* C4: when the satisfying rows hold both NULL and non-NULL keys, a finished
\* generation returned (number of non-NULL keys + 1) rows and exactly one
\* NULL-key row: the last row where the scan meets NULLs last, the first row
\* where it meets them first.
C4_NullRowAtItsEnd ==
    (phase = "open" /\ exhausted /\ NullKey \in RefKeys /\ RefKeys # {NullKey}) =>
        /\ Len(out) = Cardinality(RefKeys \ {NullKey}) + 1
        /\ Cardinality({i \in DOMAIN out : out[i].k = NullKey}) = 1
        /\ out[IF NullsFirstInScan THEN 1 ELSE Len(out)].k = NullKey

\* C5: a generation started by rescan returns exactly the rows a freshly
\* opened node returns for the current parameter value.
C5_RescanEqualsFreshRun ==
    (phase = "open" /\ exhausted) => out = RunGeneration(FreshState, MaxOut)

\* C6: a finished generation returned exactly one row, with NULL key, when
\* every satisfying row has a NULL key, and no row when no row satisfies the
\* non-skip predicates.
C6_AllNullOrEmpty ==
    (phase = "open" /\ exhausted) =>
        /\ RefKeys = {NullKey} => (Len(out) = 1 /\ out[1].k = NullKey)
        /\ Satisfying = {} => out = <<>>

\* C7: when no row satisfies the non-skip predicates, the first get-next of
\* the generation reports exhaustion after one pull of the inner scan,
\* without a row and without an additional NULL or non-NULL probe.
C7_EmptyEndsAtFirstProbe ==
    (CalledOnce /\ Satisfying = {}) =>
        /\ exhausted /\ out = <<>> /\ result = NoRow
        /\ probes.null = 0 /\ probes.val = 0 /\ probes.pulls = 1

\* C8: in a generation the additional-NULL probe and the additional-value
\* probe each start at most once; one get-next retries at most once and pulls
\* from the inner scan at most twice.
C8_BoundedProbes ==
    /\ probes.null <= 1 /\ probes.val <= 1
    /\ probes.null + probes.val <= 2
    /\ probes.depth <= 1 /\ probes.pulls <= 2
    /\ probes.pulls <= probes.depth + 1

\* C8 witness: a get-next that ran out of values, retried with the
\* additional-NULL probe and returned the NULL row from its second pull
C8_Witness ==
    /\ probes.null = 1 /\ probes.depth = 1 /\ probes.pulls = 2
    /\ result # NoRow /\ result.k = NullKey
    /\ Len(out) >= 2

\* C9: a get-next never clears a found-NULL or found-value mark and never
\* sets the stage back to SearchingFirst once a row was returned; the stage
\* goes back to SearchingFirst only in a rescan.
C9_StageMonotonic ==
    [][/\ (phase = "open" /\ probes'.pulls > 0) =>
              /\ BitAnd(stage', BitAnd(stage, SkipScanFoundNullAndVal))
                     = BitAnd(stage, SkipScanFoundNullAndVal)
              /\ (out # <<>> => stage' # SkipScanSearchingForFirst)
       /\ (stage # SkipScanSearchingForFirst /\ stage' = SkipScanSearchingForFirst) =>
              (probes' = NoProbes /\ out' = <<>> /\ ~exhausted')]_vars

\* C9 witness: both marks set, the value found by the additional-value probe
\* after a NULL
C9_Witness ==
    /\ stage = SkipScanFoundNullAndVal
    /\ probes.val = 1
    /\ Len(out) >= 2 /\ out[1].k = NullKey

\* C10: after open, while the skip qual is not marked removed, it occurs
\* exactly once among the active scan keys, at skip_qual_offset, after every
\* key on an earlier index column and before every other key on its own or a
\* later column.
C10_SkipQualPlacement ==
    (phase = "open" /\ ~skip_qual_removed) =>
        /\ skip_qual_offset + 1 <= num_scan_keys
        /\ \A i \in 1 .. num_scan_keys :
              /\ (scan_keys[i].qual = 0) = (i = skip_qual_offset + 1)
              /\ i < skip_qual_offset + 1 =>
                     scan_keys[i].sk_attno < idx_scan.distinct_column + 1
              /\ i > skip_qual_offset + 1 =>
                     scan_keys[i].sk_attno >= idx_scan.distinct_column + 1
        /\ scan_keys[skip_qual_offset + 1].sk_attno = idx_scan.distinct_column + 1

\* C11: for a reference-typed distinct column, the value captured from the
\* last returned row is a copy the node owns, no copy is dropped (replaced by
\* a new capture or reset by rescan) without having been freed, nothing is
\* freed twice, and the index never reads a freed copy as the skip bound.
C11_CapturedCopyOwnedAndFreed ==
    (~idx_scan.distinct_by_val /\ phase \in {"open", "crashed", "closed"}) =>
        /\ ~prev_is_null => heap.owned
        /\ ~heap.lost
        /\ ~heap.bad_free
        /\ ~heap.stale_use

\* C12: after close, from whatever stage it was called, no retrieval buffer
\* pinned during the execution is still held (none was leaked, the buffer
\* number is invalid), the inner scan descriptor is closed, and no pin was
\* released twice.
C12_CloseReleasesOnce ==
    phase = "closed" =>
        /\ index_only_buffer = 0
        /\ scan_desc.valid => scan_desc.ended
        /\ ~pins.leaked
        /\ ~pins.bad_release

\* the inner plan is one skip_scan_begin must reject
BadInnerPlan ==
    \/ idx_scan.type \notin {"IndexScan", "IndexOnlyScan"}
    \/ idx_scan.indexorderby > 0

\* C13: plan creation ends in an error, with the message that names the
\* kind, exactly when the plan made of the wrapped path is neither an
\* IndexScan nor an IndexOnlyScan (its one other error is the missing
\* DISTINCT column), and a node is only made over one of the two kinds; open
\* ends in the error state when the inner scan has order-by keys or is of
\* another kind, and only then; in an error state no row was produced and no
\* scan was started; and no step is taken from an error state.
C13_OpenRejectsBadInnerPlans ==
    [][LET Rejected ==
               /\ idx_scan.type = "ERROR" => phase = "plan_error"
               /\ BadInnerPlan =>
                     phase \in {"planning", "created", "plan_error", "error"}
               /\ phase \in {"error", "plan_error"} =>
                     /\ BadInnerPlan
                     /\ out = <<>> /\ result = NoRow /\ ~exhausted
                     /\ ~scan_desc.valid /\ probes = NoProbes
           PlanCreation ==
               phase = "planning" =>
                   /\ phase' \in {"created", "plan_error"}
                   /\ phase' = "created" <=>
                         idx_scan'.type \in {"IndexScan", "IndexOnlyScan"}
                   /\ phase' = "plan_error" =>
                         /\ idx_scan'.type = "ERROR"
                         /\ \/ /\ idx_scan'.message =
                                     "bad subplan type for SkipScan: %d"
                               /\ idx_scan'.arg \notin
                                     {"IndexScan", "IndexOnlyScan"}
                            \/ idx_scan'.message =
                                 "Invalid skip column in SkipScanPath; could not find in tlist"
           Open ==
               phase = "created" =>
                   /\ phase' \in {"open", "error"}
                   /\ phase' = "error" <=> BadInnerPlan
       IN /\ Rejected
          /\ Rejected'
          /\ PlanCreation
          /\ Open
          /\ phase \notin {"error", "plan_error"}]_vars

\* C13 witness: open has rejected an index-only scan with order-by keys,
\* after it initialised the inner node and took over its scan keys
C13_Witness ==
    /\ phase = "error"
    /\ idx_scan.type = "IndexOnlyScan"
    /\ idx_scan.indexorderby > 0
    /\ num_scan_keys = Len(idx_scan.indexqual)
    /\ num_scan_keys > 0
    /\ out = <<>>

\* C14: every skip-scan path the selector emits wraps an index path with a
\* sort operator family and without order-by keys, so a plan built from an
\* emitted path never has order-by keys and its open never ends in the error
\* state
C14_EmittedPathsHaveNoOrderBys ==
    /\ \A sp \in SkipScanPathsOf(output_rel.pathlist) :
          /\ sp.index_path.type = "IndexPath"
          /\ sp.index_path.sortopfamily # "NULL"
          /\ sp.index_path.indexorderbys = 0
    /\ phase \in {"created", "open"} =>
          /\ idx_scan.type \in {"IndexScan", "IndexOnlyScan"}
          /\ idx_scan.indexorderby = 0
    /\ phase # "error"

\* a plan of an emitted path is open, and the planner had a dedup path over
\* an index path with order-by keys among its candidates
C14_Witness ==
    /\ phase = "open"
    /\ \E i \in 1..Len(planning.before) :
          /\ planning.before[i].type = "UpperUniquePath"
          /\ planning.before[i].subpath.type = "IndexPath"
          /\ planning.before[i].subpath.indexorderbys > 0

\* C15: ts_add_skip_scan_paths is purely additive: every path that was in
\* the path list of the output relation before the hook ran is in it
\* afterwards, unmodified
C15_HookIsAdditive ==
    planning.status # "idle" =>
        \A i \in 1..Len(planning.before) :
            \E j \in 1..Len(output_rel.pathlist) :
                output_rel.pathlist[j] = planning.before[i]

\* C16: with the switch off ts_add_skip_scan_paths offers no path and leaves
\* the output relation as it is; only the hook reads the switch: with the
\* switch on or off, a skip-scan path of the rel can be made a plan and a
\* created plan can be opened
C16_SwitchOffAddsNothing ==
    /\ [](planning.guc_reads \subseteq {"ts_add_skip_scan_paths"})
    /\ []((phase = "created") => ENABLED skip_scan_begin)
    /\ []((/\ phase = "planning"
           /\ planning.status \in {"done", "returned"}
           /\ SkipScanPathsOf(output_rel.pathlist) # {}) => ENABLED PlanCustomPath)
    /\ [][(planning.status = "idle" /\ planning'.status # "idle"
            /\ ~ts_guc_enable_skip_scan) =>
              /\ output_rel' = output_rel
              /\ planning'.offered = <<>>
              /\ planning'.status = "disabled"]_vars

\* the hook has run with the switch off on a path list that holds a dedup
\* path with one key over an index path it could convert
C16_Witness ==
    /\ planning.status = "disabled"
    /\ ~ts_guc_enable_skip_scan
    /\ \E i \in 1..Len(planning.before) :
          /\ planning.before[i].type = "UpperUniquePath"
          /\ planning.before[i].numkeys = 1
          /\ planning.before[i].subpath = IndexPathOK

\* a dedup path the selector does not handle: more than one distinct key, or
\* a sub-path that is neither an index path nor a merge path
UnhandledDedupPath(path) ==
    /\ path.type = "UpperUniquePath"
    /\ \/ path.numkeys > 1
       \/ path.subpath.type \notin {"IndexPath", "MergeAppendPath"}

\* C17: for a dedup path with more than one distinct key, and for one whose
\* sub-path is neither an index path nor a merge path, the selector offers
\* nothing and goes on to the next candidate: no offered path stems from it,
\* and when it is the first of the list the hook's result is that of the
\* loop over the rest of the list
C17_UnhandledDedupPathsSkipped ==
    planning.status \notin {"idle", "disabled"} =>
        \A i \in 1..Len(planning.before) :
            LET path == planning.before[i]
            IN UnhandledDedupPath(path) =>
                /\ SkipScanCandidate(path) = [offer |-> NoPath, go |-> "continue"]
                /\ \A k \in 1..Len(planning.offered) :
                      LET o == planning.offered[k]
                      IN /\ o.type = "CustomPath" =>
                               ~(/\ o.index_path = path.subpath
                                 /\ o.total_cost = Log2(path.total_cost)
                                 /\ o.parallel_safe = path.parallel_safe)
                         /\ o.type = "UpperUniquePath" => o.numkeys = 1
                /\ i = 1 =>
                      \E freed_cell \in FreedCellOutcomes :
                          LET r == SkipScanPathsLoop(planning.before,
                                       Tail(planning.before), <<>>, freed_cell)
                          IN /\ r.pathlist = output_rel.pathlist
                             /\ r.offered = planning.offered
                             /\ r.status = planning.status

\* the hook went past a dedup path with two keys and offered a skip-scan
\* path for the candidate after it
C17_Witness ==
    /\ planning.status = "done"
    /\ Len(planning.before) > 1
    /\ planning.before[1].type = "UpperUniquePath"
    /\ planning.before[1].numkeys > 1
    /\ planning.offered # <<>>

\* the merge paths under the dedup paths of a path list
MergePathsOf(pathlist) ==
    {pathlist[i].subpath :
        i \in {j \in 1..Len(pathlist) :
                /\ pathlist[j].type = "UpperUniquePath"
                /\ pathlist[j].subpath.type = "MergeAppendPath"}}

\* C18: a rewritten merge is in the path list only if every branch of the
\* merge was converted: no merge path mixes skip-scan branches with other
\* branches
C18_MergeAllBranchesOrNone ==
    \A mp \in MergePathsOf(output_rel.pathlist) :
        \/ \A k \in 1..Len(mp.subpaths) : mp.subpaths[k].type = "CustomPath"
        \/ \A k \in 1..Len(mp.subpaths) : mp.subpaths[k].type # "CustomPath"

\* an index path for which a lookup of create_index_skip_scan_path fails:
\* the column, its attribute entry, its type or its comparison operator
UnresolvedIndexPath(ip) ==
    /\ ip.type = "IndexPath"
    /\ ip.sortopfamily # "NULL"
    /\ ip.indexorderbys = 0
    /\ \/ ~ip.tlist_col
       \/ TableCol(ip) = 0
       \/ ~ip.att_valid
       \/ ~ip.type_valid
       \/ ~ip.comparator_valid

\* C19: a lookup failure while building a skip-scan path declines that
\* candidate only: the hook raises no error, offers nothing for the
\* candidate and goes on with the paths after it
C19_LookupFailureDeclinesCandidate ==
    planning.status \notin {"idle", "disabled"} =>
        /\ planning.status # "error"
        /\ \A i \in 1..Len(planning.before) :
              LET path == planning.before[i]
              IN (/\ path.type = "UpperUniquePath"
                  /\ path.numkeys = 1
                  /\ \/ UnresolvedIndexPath(path.subpath)
                     \/ /\ path.subpath.type = "MergeAppendPath"
                        /\ \A k \in 1..Len(path.subpath.subpaths) :
                              UnresolvedIndexPath(path.subpath.subpaths[k]))
                 => SkipScanCandidate(path) = [offer |-> NoPath, go |-> "continue"]

\* C20: a get-next after the first of a generation leaves the skip key
\* populated from the stage and the captured value: its bound is the key of
\* the row returned last before the call (0 with the is-NULL flag for a NULL
\* key); when the call retried with the additional-NULL probe its flags are
\* search-NULL and is-NULL, with the additional-value probe search-non-NULL
\* and is-NULL; otherwise, after a NULL key, is-NULL without search-NULL, and
\* after a value a strict comparison in scan direction with neither
\* search-non-NULL nor is-NULL
C20_SkipQualPopulated ==
    [][(phase = "open" /\ probes'.pulls > 0 /\ stage # SkipScanSearchingForFirst) =>
          LET key == scan_keys'[skip_qual_offset + 1]
              last == out[Len(out)]
          IN /\ out # <<>>
             /\ ~skip_qual_removed'
             /\ key.sk_argument = prev_distinct_val
             /\ key.sk_argument = IF last.k = NullKey THEN 0 ELSE last.k
             /\ key.sk_attno = idx_scan.distinct_column + 1
             /\ key.sk_strategy = SkipStrategy(index.reverse_sort,
                                               idx_scan.indexorderdir)
             /\ key.sk_strategy \in {BTLessStrategyNumber, BTGreaterStrategyNumber}
             /\ IF probes'.null > probes.null
                THEN key.sk_flags = {SK_SEARCHNULL, SK_ISNULL}
                ELSE IF probes'.val > probes.val
                THEN key.sk_flags = {SK_SEARCHNOTNULL, SK_ISNULL}
                ELSE IF last.k = NullKey
                THEN SK_ISNULL \in key.sk_flags /\ SK_SEARCHNULL \notin key.sk_flags
                ELSE key.sk_flags \cap {SK_SEARCHNOTNULL, SK_ISNULL} = {}]_vars

\* C20 witness: after a NULL key the additional-value probe found a value,
\* and the get-next after it compared strictly against that value
C20_Witness ==
    /\ phase = "open"
    /\ Len(out) >= 3
    /\ out[1].k = NullKey
    /\ probes.val = 1
    /\ ~skip_qual_removed
    /\ scan_keys[skip_qual_offset + 1].sk_flags = {}
    /\ scan_keys[skip_qual_offset + 1].sk_argument = out[2].k

\* the state after the first pull of a get-next called in the current state
FirstPull ==
    ExecProcNode(ExecSetupScan([State EXCEPT !.probes.pulls = 0,
                                             !.probes.depth = 0]))

\* C21: when the first pull of a get-next returns no row, the call reports
\* the end if both a NULL and a value were found or nothing was found;
\* with only a value found it marks the stage as searching for an additional
\* NULL, clears the inner end flag and pulls once more; with only a NULL
\* found it does the same for an additional value; and when that second pull
\* is empty too it reports the end with the mark left set
C21_EmptyPullDecision ==
    [][(phase = "open" /\ probes'.pulls > 0 /\ FirstPull.result = NoRow) =>
          IF stage \in {SkipScanSearchingForFirst, SkipScanFoundNullAndVal}
          THEN /\ result' = NoRow /\ exhausted'
               /\ stage' = stage
               /\ probes'.pulls = 1 /\ probes'.depth = 0
               /\ probes'.null = probes.null /\ probes'.val = probes.val
          ELSE /\ stage \in {SkipScanFoundNull, SkipScanFoundVal}
               /\ probes'.pulls = 2 /\ probes'.depth = 1
               /\ IF stage = SkipScanFoundVal
                  THEN /\ probes'.null = probes.null + 1
                       /\ probes'.val = probes.val
                       /\ scan_keys'[skip_qual_offset + 1].sk_flags
                              = {SK_SEARCHNULL, SK_ISNULL}
                       /\ IF result' = NoRow
                          THEN stage' = SkipScanSearchingForNull /\ exhausted'
                          ELSE /\ stage' = SkipScanFoundNullAndVal
                               /\ result'.k = NullKey
                  ELSE /\ probes'.val = probes.val + 1
                       /\ probes'.null = probes.null
                       /\ scan_keys'[skip_qual_offset + 1].sk_flags
                              = {SK_SEARCHNOTNULL, SK_ISNULL}
                       /\ IF result' = NoRow
                          THEN stage' = SkipScanSearchingForVal /\ exhausted'
                          ELSE /\ stage' = SkipScanFoundNullAndVal
                               /\ result'.k # NullKey
               /\ (idx_scan.type = "IndexScan" /\ result' # NoRow) => ~reached_end']_vars

\* C21 witness: with only values found the first pull was empty, the
\* additional-NULL probe was empty too, and the end was reported
C21_Witness ==
    /\ phase = "open"
    /\ exhausted /\ out # <<>>
    /\ stage = SkipScanSearchingForNull
    /\ probes.null = 1 /\ probes.depth = 1 /\ probes.pulls = 2

\* the scan keys of the user's index conditions alone: in plan order, with
\* the parameter's value p in the runtime keys
UserScanKeys(p) ==
    [n \in 1 .. Len(idx_scan.indexqual) - 1 |->
        LET q == idx_scan.indexqual[n + 1]
        IN [ScanKeyEntry(q, n) EXCEPT !.sk_argument = IF q.isparam THEN p ELSE q.val]]

\* C22: the first get-next of a generation pulls once, from a scan begun
\* without the skip predicate whose keys are the user's conditions in their
\* order and with their values, and leaves the predicate removed; a get-next
\* after a returned row and a rescan leave it re-inserted at its recorded
\* position
C22_FirstProbeWithoutSkipQual ==
    [][/\ (phase = "open" /\ probes'.pulls > 0 /\ stage = SkipScanSearchingForFirst) =>
              /\ probes'.pulls = 1
              /\ skip_qual_removed'
              /\ scan_desc'.valid
              /\ scan_desc'.numberOfKeys = Len(idx_scan.indexqual) - 1
              /\ scan_desc'.keyData = UserScanKeys(param)
       /\ (phase = "open" /\ (\/ (stage' # stage /\ stage' = SkipScanSearchingForFirst)
                               \/ (probes'.pulls > 0 /\ stage # SkipScanSearchingForFirst))) =>
              /\ ~skip_qual_removed'
              /\ num_scan_keys' = Len(idx_scan.indexqual)
              /\ scan_keys'[skip_qual_offset' + 1].qual = 0
              /\ skip_qual_offset' = skip_qual_offset]_vars

\* C23: once a get-next has reported the end of a generation, every further
\* get-next before a rescan reports it again, returns no row and leaves the
\* scan keys and their number as they were
C23_ExhaustionIsTerminal ==
    [][(phase = "open" /\ exhausted /\ late_calls' > late_calls) =>
          /\ result' = NoRow
          /\ exhausted'
          /\ scan_keys' = scan_keys
          /\ num_scan_keys' = num_scan_keys]_vars

\* C24: the assertions of the node hold at every call: a get-next in stage
\* SearchingForFirst finds no scan descriptor, the skip key not removed and
\* at least one scan key; a get-next in another stage and a rescan touch the
\* skip key's slot only with the key present and the key count positive; the
\* additional-NULL probe starts only with a value found, the
\* additional-value probe only with a NULL found
C24_AssertionsHold ==
    [][/\ (phase = "open" /\ probes'.pulls > 0 /\ stage = SkipScanSearchingForFirst) =>
              /\ ~scan_desc.valid
              /\ ~skip_qual_removed
              /\ num_scan_keys >= 1
       /\ (phase = "open" /\ probes'.pulls > 0 /\ stage # SkipScanSearchingForFirst) =>
              LET a == skip_scan_state_readd_skip_qual_if_needed(State)
              IN ~a.skip_qual_removed /\ a.num_scan_keys > 0
       /\ (phase = "open" /\ probes'.pulls = 0 /\ skip_qual_removed) =>
              num_scan_keys + 1 > 0
       /\ (phase = "open" /\ probes'.null > probes.null) =>
              BitAnd(stage, SkipScanFoundVal) # 0
       /\ (phase = "open" /\ probes'.val > probes.val) =>
              BitAnd(stage, SkipScanFoundNull) # 0]_vars

\* the active scan keys that are user conditions, in their order
UserKeysOf(keys, num) ==
    SelectSeq(SubSeq(keys, 1, num), LAMBDA k : k.qual # 0)

\* C25: a rescan, from any state, leaves no scan descriptor recorded, the
\* skip key present (put back in its slot if it was removed), the inner node
\* rescanned with the new parameter, the stage SearchingForFirst and the value
\* reset; the slot of the skip key, the plan and the user conditions stay as
\* they were, but for the parameter's value in the runtime keys
C25_RescanResets ==
    [][(phase = "open" /\ probes'.pulls = 0) =>
          /\ ~scan_desc'.valid
          /\ ~skip_qual_removed'
          /\ num_scan_keys' = IF skip_qual_removed THEN num_scan_keys + 1
                              ELSE num_scan_keys
          /\ scan_keys'[skip_qual_offset + 1] =
                 IF skip_qual_removed THEN skip_qual
                 ELSE scan_keys[skip_qual_offset + 1]
          /\ scan_keys'[skip_qual_offset + 1].qual = 0
          /\ RuntimeKeysReady'
          /\ stage' = SkipScanSearchingForFirst
          /\ prev_distinct_val' = 0 /\ prev_is_null'
          /\ skip_qual_offset' = skip_qual_offset
          /\ idx_scan' = idx_scan
          /\ LET before == UserKeysOf(scan_keys, num_scan_keys)
                 after == UserKeysOf(scan_keys', num_scan_keys')
             IN /\ Len(after) = Len(before)
                /\ \A i \in 1 .. Len(before) :
                      after[i] =
                        IF idx_scan.indexqual[before[i].qual + 1].isparam
                        THEN [before[i] EXCEPT !.sk_argument = param',
                                               !.sk_flags = @ \ {SK_ISNULL}]
                        ELSE before[i]]_vars

\* C26: a get-next begins a new scan descriptor only when the number of scan
\* keys changes in it, that is in the first probe of a generation (the skip
\* key is removed) and in the first get-next after it (the skip key is put
\* back); every other get-next re-seeks the descriptor it found; and every
\* re-seek is called with the key count its descriptor was begun with
C26_BeginOnlyOnCountChange ==
    [][(phase = "open" /\ probes'.pulls > 0) =>
          /\ handles'.begins =
                IF stage = SkipScanSearchingForFirst \/ skip_qual_removed
                THEN 1 ELSE 0
          /\ (handles'.begins = 1) => num_scan_keys' # num_scan_keys
          /\ (handles'.begins = 0) =>
                /\ scan_desc.valid
                /\ num_scan_keys' = num_scan_keys
                /\ scan_desc'.numberOfKeys = scan_desc.numberOfKeys
                /\ handles'.seeks >= 1
          /\ ~handles'.begun_with_same_count
          /\ ~handles'.seek_count_differs
          /\ scan_desc'.numberOfKeys = num_scan_keys']_vars

\* C26 witness: a get-next that retried has re-sought the descriptor twice
\* and begun none, after earlier calls returned two rows
C26_Witness ==
    /\ phase = "open"
    /\ Len(out) >= 2
    /\ handles.begins = 0
    /\ handles.seeks >= 2
    /\ handles.open = 1

\* C27: at most one index scan descriptor is open at any time, and it is the
\* recorded one: a descriptor is ended before another is begun, before a
\* rescan clears the record and when the node is closed; no descriptor is
\* ended twice and none is re-sought after it was ended
C27_OneOpenDescriptor ==
    /\ handles.open = IF scan_desc.valid /\ ~scan_desc.ended THEN 1 ELSE 0
    /\ scan_desc.ended => phase = "closed"
    /\ ~handles.ended_twice
    /\ ~handles.seek_on_ended

\* C27 witness: a node closed after a rescan and two rows of the second
\* generation, with every descriptor it began ended
C27_Witness ==
    /\ phase = "closed"
    /\ Len(out) >= 2
    /\ RuntimeKeysReady
    /\ handles.begins = 1
    /\ handles.open = 0

\* C28: taking the skip key out and putting it back gives the key array and
\* the key count there were before; and after any sequence of get-next and
\* rescan calls the active keys other than the skip key are the user's
\* conditions, in the plan's order and with their values (a runtime key holds
\* the parameter, or no value yet), and the key count is the count at
\* open, less one exactly while the skip key is marked removed
C28_RemoveReaddRestores ==
    phase = "open" =>
        /\ ~skip_qual_removed =>
              LET r == skip_scan_state_readd_skip_qual_if_needed(
                           skip_scan_state_remove_skip_qual(State))
              IN /\ r.scan_keys = scan_keys
                 /\ r.num_scan_keys = num_scan_keys
                 /\ ~r.skip_qual_removed
        /\ num_scan_keys = Len(idx_scan.indexqual)
                              - (IF skip_qual_removed THEN 1 ELSE 0)
        /\ LET user == UserKeysOf(scan_keys, num_scan_keys) IN
           /\ Len(user) = Len(idx_scan.indexqual) - 1
           /\ \A n \in 1 .. Len(user) :
                 \/ user[n] = UserScanKeys(param)[n]
                 \/ /\ idx_scan.indexqual[n + 1].isparam
                    /\ user[n] = ScanKeyEntry(idx_scan.indexqual[n + 1], n)

\* C29: between calls the stage is one of SearchingForFirst, FoundNull,
\* FoundVal, FoundNullAndVal, SearchingForVal and SearchingForNull: the
\* searching-for-additional mark is never alone and never with both found
\* marks; it is not set when the last get-next returned a row; the captured
\* value is NULL only if NULL was found or nothing was, and non-NULL only if
\* a value was found
C29_StageWellFormed ==
    phase = "open" =>
        /\ stage \in {SkipScanSearchingForFirst, SkipScanFoundNull,
                      SkipScanFoundVal, SkipScanFoundNullAndVal,
                      SkipScanSearchingForVal, SkipScanSearchingForNull}
        /\ stage # SkipScanSearchingForAdditional
        /\ stage # BitOr(SkipScanSearchingForAdditional, SkipScanFoundNullAndVal)
        /\ result # NoRow => BitAnd(stage, SkipScanSearchingForAdditional) = 0
        /\ prev_is_null =>
              (skip_scan_state_found_null(State) \/ stage = SkipScanSearchingForFirst)
        /\ ~prev_is_null => skip_scan_state_found_val(State)

\* C29 witness: a retry for an additional NULL returned the NULL row after a
\* value, so both marks are set and the additional mark is cleared
C29_Witness ==
    /\ phase = "open"
    /\ stage = SkipScanFoundNullAndVal
    /\ probes.depth = 1
    /\ probes.null = 1
    /\ result # NoRow
    /\ prev_is_null

RECURSIVE FreshAfter(_)
\* the node state a freshly opened operator is in after n get-next calls; a
\* call that dies in palloc returns no row, and no call follows it
FreshAfter(n) ==
    IF n = 0 THEN FreshState
    ELSE LET f == FreshAfter(n - 1) IN
         IF f.heap.crashed THEN f
         ELSE LET s1 == skip_scan_exec([f EXCEPT !.probes.pulls = 0,
                                                 !.probes.depth = 0,
                                                 !.handles.begins = 0,
                                                 !.handles.seeks = 0])
              IN IF s1.heap.crashed THEN [s1 EXCEPT !.result = NoRow] ELSE s1

\* C30: the flags of the populated skip key depend on the current generation
\* alone: a get-next that populates the skip key in the stages in which the
\* same get-next of a freshly opened node populates it (the two start in the
\* same stage with the same captured NULL mark, make the same retries and
\* end in the same stage) leaves the sk_flags in the skip key that the
\* fresh node's get-next leaves
C30_PopulatedFlagsAsFresh ==
    [][(phase = "open" /\ probes'.pulls > 0
            /\ stage # SkipScanSearchingForFirst) =>
          LET f0 == FreshAfter(Len(out))
              f1 == FreshAfter(Len(out) + 1)
              key == skip_scan_state_get_skipkey
          IN (/\ f0.stage = stage
              /\ f0.prev_is_null = prev_is_null
              /\ f1.stage = stage'
              /\ f1.prev_is_null = prev_is_null'
              /\ f1.probes = probes') =>
                 scan_keys'[key].sk_flags = f1.scan_keys[key].sk_flags]_vars

\* C31: for an index-only inner scan, beginning a new scan descriptor never
\* overwrites the number of a buffer that is still pinned with InvalidBuffer:
\* no pin is forgotten, so every buffer pinned is known when the node closes
C31_RestartKeepsBuffer ==
    idx_scan.type = "IndexOnlyScan" => ~pins.leaked

\* C32: when skip_scan_begin moves the skip key from slot 0 to its slot,
\* every runtime-key pointer designates the condition it designated before:
\* the pointers to the keys that moved one slot down moved with them, and
\* the other pointers are the ones ExecIndexBuildScanKeys set
C32_RuntimeKeysFollowFixup ==
    [][(phase = "created" /\ phase' = "open") =>
          LET built == BuildRuntimeKeys(idx_scan.indexqual, 1) IN
          /\ Len(runtime_keys') = Len(built)
          /\ \A i \in 1 .. Len(built) :
                /\ scan_keys'[runtime_keys'[i].scan_key + 1].qual = built[i].scan_key
                /\ idx_scan.indexqual[built[i].scan_key + 1].isparam
                /\ runtime_keys'[i].scan_key =
                      IF built[i].scan_key <= skip_qual_offset'
                      THEN built[i].scan_key - 1 ELSE built[i].scan_key]_vars

\* C32 witness: an open node whose skip key was moved behind a runtime key,
\* the runtime key's pointer now designating slot 0
C32_Witness ==
    /\ phase = "open"
    /\ skip_qual_offset = 1
    /\ Len(runtime_keys) = 1
    /\ runtime_keys[1].scan_key = 0
    /\ scan_keys[1].qual = 1
    /\ stage = SkipScanSearchingForFirst
    /\ ~skip_qual_removed

\* C33: the runtime keys are evaluated only while the skip key is among the
\* scan keys, so the parameter is written into the conditions it belongs to:
\* after a rescan, and after a get-next in which the inner node evaluated
\* its runtime keys for the first time, the user's keys are the user's
\* conditions with the parameter's value; and a get-next made after the
\* runtime keys were evaluated carries the user's keys along unchanged
C33_RuntimeKeysWrittenInPlace ==
    [][(phase = "open" /\ Len(runtime_keys) > 0) =>
          /\ (probes'.pulls > 0 /\ ~RuntimeKeysReady) =>
                /\ ~FirstPull.skip_qual_removed
                /\ UserKeysOf(scan_keys', num_scan_keys') = UserScanKeys(param)
          /\ (probes'.pulls = 0) =>
                /\ ~skip_qual_removed'
                /\ UserKeysOf(scan_keys', num_scan_keys') = UserScanKeys(param')
          /\ (probes'.pulls > 0 /\ RuntimeKeysReady) =>
                UserKeysOf(scan_keys', num_scan_keys')
                    = UserKeysOf(scan_keys, num_scan_keys)]_vars

\* the skip-scan paths among the paths the hook offered to add_path, bare or
\* as branches of a rewritten merge
OfferedSkipScanPaths ==
    SkipScanPathsOf(planning.offered)

\* C34: the skip comparison of every skip-scan path the selector builds is
\* ">" when the column's sort order and the scan direction agree (ascending
\* scanned forward, descending scanned backward) and "<" otherwise; and no
\* skip-scan path is built over an index path whose operator family has no
\* such operator for the column type
C34_SkipComparisonDirection ==
    \A sp \in OfferedSkipScanPaths \cup SkipScanPathsOf(output_rel.pathlist) :
        /\ sp.skip_clause.op =
              IF sp.index_path.reverse_sort
                    = (sp.index_path.indexscandir = BackwardScanDirection)
              THEN BTGreaterStrategyNumber ELSE BTLessStrategyNumber
        /\ sp.skip_clause.isnull
        /\ sp.index_path.comparator_valid

\* C34 witness: the hook has offered a skip-scan path over a descending
\* column scanned forward and one over an ascending column scanned backward,
\* or it has declined a candidate without a comparison operator and offered
\* one over a descending column scanned backward
C34_Witness ==
    /\ planning.status = "done"
    /\ \E sp \in OfferedSkipScanPaths :
          /\ sp.index_path.reverse_sort
          /\ sp.index_path.indexscandir = BackwardScanDirection
          /\ sp.skip_clause.op = BTGreaterStrategyNumber
    /\ \E i \in 1..Len(planning.before) :
          /\ planning.before[i].type = "UpperUniquePath"
          /\ planning.before[i].numkeys = 1
          /\ planning.before[i].subpath.type = "IndexPath"
          /\ ~planning.before[i].subpath.comparator_valid

\* a dedup path the selector declines: one it does not handle, one over an
\* index path for which no skip-scan path can be built, or one over a merge
\* none of whose branches converts
DeclinedDedupPath(path) ==
    \/ UnhandledDedupPath(path)
    \/ /\ path.type = "UpperUniquePath"
       /\ path.numkeys = 1
       /\ path.subpath.type = "IndexPath"
       /\ create_index_skip_scan_path(path, path.subpath, FALSE) = NoPath
    \/ /\ path.type = "UpperUniquePath"
       /\ path.numkeys = 1
       /\ path.subpath.type = "MergeAppendPath"
       /\ \A k \in 1..Len(path.subpath.subpaths) :
             LET sub_path == path.subpath.subpaths[k]
             IN \/ sub_path.type # "IndexPath"
                \/ create_index_skip_scan_path(path, sub_path, TRUE) = NoPath

\* C35: declining a candidate does not end the hook's work: when a declined
\* dedup path stands before a dedup path with one key over an index path
\* that converts, the hook still offers the skip-scan path of the latter
C35_DeclineGoesOn ==
    planning.status \notin {"idle", "disabled"} =>
        \A i \in 1..Len(planning.before) : \A j \in (i + 1)..Len(planning.before) :
            LET declined == planning.before[i]
                path == planning.before[j]
            IN (/\ DeclinedDedupPath(declined)
                /\ path.type = "UpperUniquePath"
                /\ path.numkeys = 1
                /\ path.subpath.type = "IndexPath"
                /\ create_index_skip_scan_path(path, path.subpath, FALSE)
                      \notin {NoPath, ErrorPath})
               => \E k \in 1..Len(planning.offered) :
                     planning.offered[k] = SkipScanCandidate(path).offer

\* C36: the plan puts the skip predicate first in the inner scan's index
\* condition list, ahead of every user condition, its operand rewritten to
\* index column distinct_column + 1; a plain index scan carries it first in
\* the original list as well, on the table column, and the two lists have the
\* same length; an index-only scan carries it in the executable list only;
\* open takes condition 0 of the inner scan as the skip predicate.
C36_SkipPredicateFirst ==
    [][LET PlanHasSkipPredicateFirst ==
               (phase \in {"created", "open"}
                /\ idx_scan.type \in {"IndexScan", "IndexOnlyScan"}) =>
                   /\ Len(idx_scan.indexqual) >= 1
                   /\ idx_scan.indexqual[1].isnull
                   /\ idx_scan.indexqual[1].varno = "INDEX_VAR"
                   /\ idx_scan.indexqual[1].attno = idx_scan.distinct_column + 1
                   /\ \A i \in 2 .. Len(idx_scan.indexqual) :
                         ~idx_scan.indexqual[i].isnull
                   /\ idx_scan.type = "IndexScan" =>
                         /\ Len(idx_scan.indexqualorig) = Len(idx_scan.indexqual)
                         /\ idx_scan.indexqualorig[1].isnull
                         /\ idx_scan.indexqualorig[1].varno = "rel"
                         /\ idx_scan.indexqualorig[1].op = idx_scan.indexqual[1].op
                         /\ \A i \in 2 .. Len(idx_scan.indexqualorig) :
                               ~idx_scan.indexqualorig[i].isnull
                   /\ idx_scan.type = "IndexOnlyScan" =>
                         idx_scan.indexqualorig = <<>>
           OpenTakesConditionZero ==
               (phase = "created" /\ phase' = "open") =>
                   /\ skip_qual'.qual = 0
                   /\ skip_qual'.sk_attno = idx_scan.distinct_column + 1
                   /\ skip_qual'.sk_strategy = idx_scan.indexqual[1].op
                   /\ SK_ISNULL \in skip_qual'.sk_flags
       IN /\ PlanHasSkipPredicateFirst
          /\ PlanHasSkipPredicateFirst'
          /\ OpenTakesConditionZero]_vars

\* an opened plain index scan whose skip predicate stands ahead of two user
\* conditions, on the second index column
C36_Witness ==
    /\ phase = "open"
    /\ idx_scan.type = "IndexScan"
    /\ idx_scan.distinct_column = 1
    /\ Len(idx_scan.indexqual) = 3
    /\ Len(idx_scan.indexqualorig) = 3
    /\ idx_scan.indexqual[1].attno = 2
    /\ skip_qual.qual = 0
    /\ skip_qual_offset = 1

\* C37: every path the selector emits carries the heuristic cost: a bare
\* skip-scan path has total cost log2 of the total cost of the dedup path it
\* replaces; a rewritten merge and its dedup wrapper have log2 of the total
\* costs of the original merge and the original dedup path; each skip-scan
\* sub-path under the merge has log2 of the total cost of the index path it
\* stands for.
C37_EmittedPathsCarryHeuristicCost ==
    planning.status \notin {"idle", "disabled"} =>
        \A k \in 1..Len(planning.offered) :
            LET o == planning.offered[k]
            IN \E i \in 1..Len(planning.before) :
                  LET b == planning.before[i]
                  IN /\ b.type = "UpperUniquePath"
                     /\ o.total_cost = Log2(b.total_cost)
                     /\ IF o.type = "CustomPath"
                        THEN b.subpath = o.index_path
                        ELSE /\ o.type = "UpperUniquePath"
                             /\ b.subpath.type = "MergeAppendPath"
                             /\ o.subpath.type = "MergeAppendPath"
                             /\ o.subpath.total_cost = Log2(b.subpath.total_cost)
                             /\ Len(o.subpath.subpaths) = Len(b.subpath.subpaths)
                             /\ \A n \in 1..Len(o.subpath.subpaths) :
                                   LET sub == o.subpath.subpaths[n]
                                       orig == b.subpath.subpaths[n]
                                   IN IF sub.type = "CustomPath"
                                      THEN /\ sub.index_path = orig
                                           /\ sub.total_cost = Log2(orig.total_cost)
                                      ELSE sub = orig

====
